---- MODULE Spec2Model ----
(***************************************************************************)
(* ibstract: historical market-data blocks, the gap planner and the        *)
(* cache/provider synchronisation of ibstract/marketdata.py and            *)
(* ibstract/utils.py, as state machines.                                   *)
(*                                                                         *)
(* SpecBlock : MarketDataBlock construction / update / combine             *)
(* SpecPlan  : hist_data_req_start_end and query_hist_data_split_req       *)
(* SpecSync  : get_hist_data with its concurrent download tasks            *)
(* SpecStore : insert_hist_data and query_hist_data on the MySQL table     *)
(* SpecPool  : the connections of ibstract/brokers.py and their semaphore  *)
(* SpecTwice : one connection with overlapping calls of connect_async      *)
(* SpecZone  : the time zones of the blocks of req_hist_data_async and     *)
(*             get_hist_data                                               *)
(* SpecText  : timedur_standardize and barsize_to_IB of ibstract/utils.py  *)
(*             on the texts of a request, from HistDataReq to the broker   *)
(***************************************************************************)
EXTENDS Integers, Sequences, FiniteSets, TLC

VARIABLES
    df,        \* MarketDataBlock.df of the block under test (a sequence of rows)
    other,     \* .df of a second MarketDataBlock, the argument of combine
    otherRaw,  \* the DataFrame the second block was constructed from
    op,        \* the last block operation: its kind, the block before it, its input
    merged,    \* the cell-wise merge of the raw rows given to the block so far
    nops,      \* number of block operations performed
    request,   \* the HistDataReq of the user
    now,       \* datetime.now(tz=xchg_tz).year
    db,        \* the rows of the MySQL table of req.SecType
    plan,      \* what query_hist_data_split_req returned or raised
    mysql,     \* get_hist_data is given a database
    pc,        \* where get_hist_data is
    engine,    \* the aiomysql engine of the call: "none", "open", "closed"
    tasks,     \* the download_insert_hist_data coroutines under gather
    finished,  \* the tasks in the order they completed
    blk_ret,   \* the block get_hist_data builds and returns
    combined,  \* number of downloaded blocks combined into blk_ret
    io,        \* what get_hist_data has asked of the broker and of the database so far
    first_ret, \* <<the block the first call of get_hist_data returned>>, <<>> during that call
    served,    \* the requests the broker has answered, each with the block it sent
    call,      \* the last call on the cache: its kind, arguments, result
    nstore,    \* number of calls made on the cache
    sem,       \* IB.sem: the value of the bounded semaphore
    clientid_baskets, \* IB.clientid_baskets: the client ids not in use
    ib,        \* the IB objects: position in connect_async, isConnected(), clientid
    fault,     \* what went wrong so far: failed connects, lost connections, errors raised
    recycled,  \* whether _offline_cleanup has put a client id back
    again,     \* per IB object, the position of a second connect_async that overlaps the first
    contract,  \* a request with its contract details, the provider's bars, the stored rows
    blk_list,  \* what req_hist_data_async returned or raised for the request
    blk_sync,  \* what get_hist_data returned or raised for the request
    moved,     \* the last tz_convert of a returned block: the rows before and after
    text,      \* the bar size and the duration as the user wrote them, and whether a database is given
    parsed,    \* what HistDataReq made of them, or the exception it raised
    phase      \* how far the request has come: written, constructed, planned, with the broker

blockVars == <<df, other, otherRaw, op, merged, nops>>

planVars == <<request, now, db, plan>>

syncVars == <<mysql, pc, engine, tasks, finished, blk_ret, combined, io, first_ret, served>>

storeVars == <<call, nstore>>

poolVars == <<sem, clientid_baskets, ib, fault, recycled, again>>

zoneVars == <<contract, blk_list, blk_sync, moved>>

textVars == <<text, parsed, phase>>

vars == <<df, other, otherRaw, op, merged, nops, request, now, db, plan,
          mysql, pc, engine, tasks, finished, blk_ret, combined, io, first_ret, served,
          call, nstore,
          sem, clientid_baskets, ib, fault, recycled, again,
          contract, blk_list, blk_sync, moved, text, parsed, phase>>

(***************************************************************************)
(* Bounds of the model.                                                    *)
(***************************************************************************)
MaxOps == 3

(***************************************************************************)
(* MarketDataBlock                                                         *)
(*                                                                         *)
(* A DataFrame is a sequence of rows [key, cells]; key is the MultiIndex   *)
(* tuple <<Symbol, DataType, BarSize, TickerTime>>, cells maps a column to *)
(* a cell.  A cell is NaN or {v} for a concrete value v.                   *)
(***************************************************************************)
data_index == <<"Symbol", "DataType", "BarSize", "TickerTime">>

Columns == {"opening", "volume"}

NaN == {}

FillValue == -1

isna(cell) == cell = NaN

\* Strings in Python's (lexicographic) order, to compare index labels.
Lexicon == <<"1M", "1W", "1d", "1h", "1s", "5m", "AAPL", "GS", "TRADES">>

StrRank(s) == CHOOSE i \in DOMAIN Lexicon : Lexicon[i] = s

\* Tuple order of the MultiIndex, as sort_index() uses it.
KeyLess(a, b) ==
    \/ StrRank(a[1]) < StrRank(b[1])
    \/ a[1] = b[1] /\ StrRank(a[2]) < StrRank(b[2])
    \/ a[1] = b[1] /\ a[2] = b[2] /\ StrRank(a[3]) < StrRank(b[3])
    \/ a[1] = b[1] /\ a[2] = b[2] /\ a[3] = b[3] /\ a[4] < b[4]

\* _standardize_index: the key columns missing from the input are filled from
\* the arguments, and the four key columns become the index.
standardize_index(df_in, datatype, barsize) ==
    [i \in DOMAIN df_in |->
        [key   |-> <<df_in[i].Symbol, datatype, barsize, df_in[i].TickerTime>>,
         cells |-> [c \in Columns |-> df_in[i][c]]]]

RECURSIVE InsertSorted(_, _)
InsertSorted(row, sorted) ==
    IF sorted = <<>> THEN <<row>>
    ELSE IF KeyLess(row.key, Head(sorted).key)
         THEN <<row>> \o sorted
         ELSE <<Head(sorted)>> \o InsertSorted(row, Tail(sorted))

\* DataFrame.sort_index(): a stable sort by index tuple.
RECURSIVE sort_index(_)
sort_index(d) ==
    IF d = <<>> THEN <<>>
    ELSE InsertSorted(d[Len(d)], sort_index(SubSeq(d, 1, Len(d) - 1)))

KeysOf(d) == {d[i].key : i \in DOMAIN d}

RowsAt(d, k) == SelectSeq(d, LAMBDA r : r.key = k)

\* combine_first's combiner: the caller's cell unless it is null.
Combiner(x, y) ==
    [key   |-> x.key,
     cells |-> [c \in Columns |->
                  IF isna(x.cells[c]) THEN y.cells[c] ELSE x.cells[c]]]

\* The rows of the outer join of the two indexes at label k: a label present
\* on both sides gives one row per pair of rows carrying it.
JoinAt(this, that, k) ==
    LET a == RowsAt(this, k)
        b == RowsAt(that, k)
    IN  IF a = <<>> THEN b
        ELSE IF b = <<>> THEN a
        ELSE [i \in 1..(Len(a) * Len(b)) |->
                 Combiner(a[((i - 1) \div Len(b)) + 1], b[((i - 1) % Len(b)) + 1])]

RECURSIVE JoinOver(_, _, _)
JoinOver(this, that, keys) ==
    IF keys = {} THEN <<>>
    ELSE LET k == CHOOSE x \in keys : \A y \in keys : x = y \/ KeyLess(x, y)
         IN  JoinAt(this, that, k) \o JoinOver(this, that, keys \ {k})

\* this.combine_first(that): align both frames on the union of their indexes,
\* then take this's cell where it is not null and that's cell otherwise.
combine_first(this, that) ==
    JoinOver(this, that, KeysOf(this) \cup KeysOf(that))

\* fillna(-1) over every column.
fillna(d) ==
    [i \in DOMAIN d |->
        [key   |-> d[i].key,
         cells |-> [c \in Columns |->
                      IF isna(d[i].cells[c]) THEN {FillValue} ELSE d[i].cells[c]]]]

\* The merge of update(): incoming cells win where they are not null.
MergeReversed(self_df, df_in) == combine_first(self_df, df_in)

Merge(self_df, df_in) == combine_first(df_in, self_df)

\* MarketDataBlock.update with an index already standard: empty input is a
\* no-op, an empty block takes the input as it is, otherwise the two are
\* merged; then nulls are filled with -1.
update(self_df, df_in) ==
    IF df_in = <<>> THEN self_df
    ELSE IF self_df = <<>> THEN fillna(sort_index(df_in))
         ELSE fillna(sort_index(Merge(self_df, df_in)))

\* MarketDataBlock(df): update() on a fresh, empty block.
MarketDataBlock(df_in) == update(<<>>, df_in)

(***************************************************************************)
(* Inputs of the block operations.                                         *)
(***************************************************************************)
BlockKeys == {<<"AAPL", 2>>, <<"GS", 1>>}

RawCells ==
    {[opening |-> {10}, volume |-> NaN],
     [opening |-> NaN, volume |-> {500}],
     [opening |-> {11}, volume |-> {500}]}

RawRows ==
    {[Symbol |-> k[1], TickerTime |-> k[2], opening |-> c.opening, volume |-> c.volume] :
        k \in BlockKeys, c \in RawCells}

\* DataFrames of at most two rows, not in index order; two rows may carry the
\* same key.
RawFrames ==
    {<<>>} \cup {<<r>> : r \in RawRows}
           \cup {<<r1, r2>> : r1 \in {r \in RawRows : r.Symbol = "GS"}, r2 \in RawRows}

HasDupKeys(d) == \E i, j \in DOMAIN d : i # j /\ d[i].key = d[j].key

\* The rows given so far, merged cell by cell: per key and column the latest
\* cell that is not null.  Kept only while no input repeated a key.
MergedRows(old, df_in) ==
    {[key   |-> k,
      cells |-> [c \in Columns |->
                   LET ni  == {i \in DOMAIN df_in : df_in[i].key = k}
                       oi  == {r \in old : r.key = k}
                   IN  IF ni # {} /\ ~isna(df_in[CHOOSE i \in ni : TRUE].cells[c])
                       THEN df_in[CHOOSE i \in ni : TRUE].cells[c]
                       ELSE IF oi # {} THEN (CHOOSE r \in oi : TRUE).cells[c]
                            ELSE NaN]] :
        k \in {r.key : r \in old} \cup KeysOf(df_in)}

NextMerged(df_in) ==
    [ok   |-> merged.ok /\ ~HasDupKeys(df_in),
     rows |-> IF merged.ok /\ ~HasDupKeys(df_in)
              THEN MergedRows(merged.rows, df_in) ELSE {}]

NoPlan ==
    [status |-> "none", dl_reqs |-> <<>>, insert_limit |-> <<>>, blk_db |-> <<>>,
     start_dt |-> 0, end_dt |-> 0, trd_days |-> <<>>]

\* No block yet, and no tz_convert of a returned block yet.
NoBlk == [status |-> "none", index |-> {}]

NoMove == [status |-> "none", before |-> {}, after |-> {}, tz |-> <<>>]

\* The variables of the time-zone handling while it is not exercised.
ZoneIdle ==
    /\ contract = [timeZoneId |-> <<>>, zone |-> "UTC", BarSize |-> "1d",
                   mysql |-> FALSE, bars |-> {}, stored |-> {}]
    /\ blk_list = NoBlk
    /\ blk_sync = NoBlk
    /\ moved = NoMove

\* No request written yet.
NoParse == [status |-> "none", BarSize |-> <<>>, TimeDur |-> <<>>]

TextIdle ==
    /\ text = [BarSize |-> <<>>, TimeDur |-> <<>>, mysql |-> FALSE]
    /\ parsed = NoParse
    /\ phase = "idle"

\* The variables of the planner while only blocks are exercised.
PlanIdle ==
    /\ request = [SecType |-> "Stock", Symbol |-> "AAPL", BarSize |-> "1d",
                  TimeDur |-> <<1, "d">>, TimeEnd |-> 0, DataType |-> "TRADES"]
    /\ now = 0
    /\ db = {}
    /\ plan = NoPlan

NoCall ==
    [kind |-> "none", before |-> {}, blk |-> <<>>, limit |-> <<>>, q |-> <<>>, ret |-> <<>>]

\* The variables of the cache calls while none is made.
StoreIdle ==
    /\ call = NoCall
    /\ nstore = 0

\* The scale of the model: IB.sem has SemCapacity permits (30 in the source)
\* and IB.clientid_baskets two ids more than that (32 in the source).
SemCapacity == 2
FirstClientId == 21

ClientIds == FirstClientId..(FirstClientId + SemCapacity + 1)

\* One IB object more than there are permits.
Sessions == 1..(SemCapacity + 1)

\* The class attributes of IB and the IB objects before any connect.
PoolIdle ==
    /\ sem = SemCapacity
    /\ clientid_baskets = ClientIds
    /\ ib = [s \in Sessions |-> [pc |-> "idle", connected |-> FALSE, clientid |-> <<>>]]
    /\ fault = {}
    /\ recycled = FALSE
    /\ again = [s \in Sessions |-> "idle"]

\* The variables of get_hist_data while it is not called.
\* No call made yet: the direct bar fetches, the bar fetches and the inserts of
\* each sub-request, the queries, the engines asked for, the table at the
\* start and the calls that raised.
NoIo(table) ==
    [direct |-> 0, fetched |-> <<>>, inserted |-> <<>>, queried |-> 0, opened |-> 0,
     db0 |-> table, failed |-> {}]

SyncIdle ==
    /\ io = NoIo({})
    /\ mysql = FALSE
    /\ pc = "idle"
    /\ engine = "none"
    /\ tasks = <<>>
    /\ finished = <<>>
    /\ blk_ret = <<>>
    /\ combined = 0
    /\ first_ret = <<>>
    /\ served = {}

\* The variables of the block operations while they are not exercised.
BlockIdle ==
    /\ df = <<>>
    /\ other = <<>>
    /\ otherRaw = <<>>
    /\ op = [kind |-> "init", prev |-> <<>>, arg |-> <<>>, given |-> [ok |-> TRUE, rows |-> {}]]
    /\ merged = [ok |-> TRUE, rows |-> {}]
    /\ nops = 0

InitBlock ==
    /\ df = <<>>
    /\ other = <<>>
    /\ otherRaw = <<>>
    /\ op = [kind |-> "init", prev |-> <<>>, arg |-> <<>>, given |-> [ok |-> TRUE, rows |-> {}]]
    /\ merged = [ok |-> TRUE, rows |-> {}]
    /\ nops = 0
    /\ PlanIdle
    /\ SyncIdle
    /\ StoreIdle
    /\ PoolIdle
    /\ ZoneIdle
    /\ TextIdle

\* blk.update(df_in, datatype='TRADES', barsize='1d'); on the empty block of
\* __init__ this is MarketDataBlock(df_in, ...).
Update(raw) ==
    /\ nops < MaxOps
    /\ LET df_in == standardize_index(raw, "TRADES", "1d")
       IN  /\ df' = update(df, df_in)
           /\ op' = [kind |-> "update", prev |-> df, arg |-> df_in, given |-> merged]
           /\ merged' = NextMerged(df_in)
    /\ nops' = nops + 1
    /\ UNCHANGED <<other, otherRaw>>
    /\ UNCHANGED planVars
    /\ UNCHANGED syncVars
    /\ UNCHANGED storeVars
    /\ UNCHANGED <<poolVars, zoneVars, textVars>>

\* other = MarketDataBlock(raw, datatype='TRADES', barsize='1d')
ConstructOther(raw) ==
    /\ nops < MaxOps
    /\ other' = MarketDataBlock(standardize_index(raw, "TRADES", "1d"))
    /\ otherRaw' = standardize_index(raw, "TRADES", "1d")
    /\ op' = [kind |-> "construct_other", prev |-> df, arg |-> <<>>, given |-> merged]
    /\ nops' = nops + 1
    /\ UNCHANGED <<df, merged>>
    /\ UNCHANGED planVars
    /\ UNCHANGED syncVars
    /\ UNCHANGED storeVars
    /\ UNCHANGED <<poolVars, zoneVars, textVars>>

\* blk.combine(other): update(other.df, standardize_index=False)
Combine ==
    /\ nops < MaxOps
    /\ df' = update(df, other)
    /\ op' = [kind |-> "combine", prev |-> df, arg |-> other, given |-> merged]
    /\ merged' = NextMerged(other)
    /\ nops' = nops + 1
    /\ UNCHANGED <<other, otherRaw>>
    /\ UNCHANGED planVars
    /\ UNCHANGED syncVars
    /\ UNCHANGED storeVars
    /\ UNCHANGED <<poolVars, zoneVars, textVars>>

NextBlock ==
    \/ \E raw \in RawFrames : Update(raw)
    \/ \E raw \in RawFrames : ConstructOther(raw)
    \/ Combine

SpecBlock == InitBlock /\ [][NextBlock]_vars

(***************************************************************************)
(* Time.  A datetime is a number of ticks since an epoch, in the exchange  *)
(* time zone; a day has TicksPerDay ticks, tick 0 being datetime.min.time()*)
(* (00:00:00) and tick TicksPerDay-1 datetime.max.time(); a week has       *)
(* DaysPerWeek days, of which the last is no trading session; a calendar   *)
(* year has DaysPerYear days.                                               *)
(***************************************************************************)
TicksPerDay == 3

DaysPerWeek == 4

DaysPerMonth == 5

DaysPerYear == 6

MaxDurDays == 3

MaxDurTicks == 4

MaxCached == 2

date(t) == t \div TicksPerDay

time(t) == t % TicksPerDay

year(t) == date(t) \div DaysPerYear

\* datetime(yr, 1, 1) and datetime(yr, 12, 31)
Jan1(yr) == yr * DaysPerYear * TicksPerDay

Dec31(yr) == ((yr + 1) * DaysPerYear - 1) * TicksPerDay

\* utils.tzcomb / tzmin / tzmax: the date of dt1 combined with a time of day.
tzcomb(dt1, dt2) == date(dt1) * TicksPerDay + dt2

tzmin(dt1) == tzcomb(dt1, 0)

tzmax(dt1) == tzcomb(dt1, TicksPerDay - 1)

\* A standardized time duration "<n><unit>" is the pair <<n, unit>>.
\* utils.timedur_to_reldelta, in ticks (an hour is one tick).
timedur_to_reldelta(timedur) ==
    CASE timedur[2] = "h" -> timedur[1]
      [] timedur[2] = "d" -> timedur[1] * TicksPerDay
      [] timedur[2] = "W" -> timedur[1] * DaysPerWeek * TicksPerDay
      [] timedur[2] = "M" -> timedur[1] * DaysPerMonth * TicksPerDay
      [] timedur[2] = "Y" -> timedur[1] * DaysPerYear * TicksPerDay

\* utils.timedur_to_timedelta: a timedelta has whole days and the rest.
timedur_to_timedelta(timedur) ==
    [days    |-> timedur_to_reldelta(timedur) \div TicksPerDay,
     seconds |-> timedur_to_reldelta(timedur) % TicksPerDay]

\* utils.NYSE_CAL: the sessions, ascending, each at 00:00:00.
CalDays == 4 * DaysPerYear

IsSession(d) == d % DaysPerWeek # DaysPerWeek - 1

RECURSIVE SessionsFrom(_)
SessionsFrom(d) ==
    IF d >= CalDays THEN <<>>
    ELSE (IF IsSession(d) THEN <<d * TicksPerDay>> ELSE <<>>) \o SessionsFrom(d + 1)

NYSE_CAL == SessionsFrom(0)

\* bisect.bisect_left(NYSE_CAL, x): the 0-based insertion index.
bisect_left(x) == Cardinality({i \in DOMAIN NYSE_CAL : NYSE_CAL[i] < x})

\* NYSE_CAL[a:b], a Series that keeps the labels a..b-1 of its rows.
CalSlice(a, b) == [i \in a..(b - 1) |-> NYSE_CAL[i + 1]]

\* utils.trading_days(time_end, time_dur, time_start); time_start is <<t>>,
\* or <<>> for None.
trading_days(time_end, time_dur, time_start) ==
    LET end_idx == bisect_left(time_end) IN
    IF time_start # <<>>
    THEN CalSlice(bisect_left(time_start[1]), end_idx)
    ELSE LET tdur == timedur_to_timedelta(time_dur)
             n1   == tdur.days
             n2   == IF time_end - tdur.seconds < tzmin(time_end) THEN n1 + 1 ELSE n1
             n_trading_days == IF time(time_end) # 0 THEN n2 + 1 ELSE n2
         IN  CalSlice(end_idx - n_trading_days, end_idx)

iloc_first(series) == series[CHOOSE i \in DOMAIN series : \A j \in DOMAIN series : i <= j]

iloc_last(series) == series[CHOOSE i \in DOMAIN series : \A j \in DOMAIN series : i >= j]

Max(a, b) == IF a >= b THEN a ELSE b

\* barsize[-1] of a standardized bar size.
BarUnit(barsize) ==
    CASE barsize = "1d" -> "d"
      [] barsize = "1h" -> "h"
      [] barsize = "5m" -> "m"
      [] barsize = "1s" -> "s"
      [] barsize = "1W" -> "W"
      [] barsize = "1M" -> "M"

\* marketdata.hist_data_req_start_end
hist_data_req_start_end(req) ==
    LET time_dur == req.TimeDur
        end_dt   == req.TimeEnd
    IN  IF time_dur[2] \in {"W", "M", "Y"}
        THEN LET start_dt == end_dt - timedur_to_reldelta(time_dur)
             IN  [start_dt |-> start_dt, end_dt |-> end_dt,
                  trd_days |-> trading_days(end_dt, time_dur, <<start_dt>>)]
        ELSE LET trd_days == trading_days(end_dt, time_dur, <<>>) IN
             IF time_dur[2] = "d"
             THEN [start_dt |-> tzcomb(iloc_first(trd_days), time(end_dt)),
                   end_dt |-> end_dt, trd_days |-> trd_days]
             ELSE IF BarUnit(req.BarSize) = "d"
                  THEN [start_dt |-> tzmin(iloc_first(trd_days)),
                        end_dt |-> end_dt, trd_days |-> trd_days]
                  ELSE [start_dt |-> Max(tzmin(iloc_last(trd_days)),
                                         end_dt - timedur_to_reldelta(time_dur)),
                        end_dt |-> end_dt, trd_days |-> trd_days]

(***************************************************************************)
(* The cache (one MySQL table, primary key the four index columns) and the *)
(* gap planner.                                                            *)
(***************************************************************************)
RECURSIVE SetToSeq(_)
SetToSeq(S) ==
    IF S = {} THEN <<>>
    ELSE LET x == CHOOSE y \in S : TRUE IN <<x>> \o SetToSeq(S \ {x})

ReqKey(req, t) == <<req.Symbol, req.DataType, req.BarSize, t>>

\* datetime(1, 1, 1) and datetime(9999, 12, 31, 23, 59, 59): the first and
\* the last instant of the model's time line.
datetime_min == Jan1(0)

datetime_max == CalDays * TicksPerDay

\* A range test that leaves out both bounds.
between_exclusive(t, start, end) == start < t /\ t < end

\* TickerTime.between(start, end)
between(t, start, end) == start <= t /\ t <= end

\* marketdata.query_hist_data: the rows of the instrument key with
\* start <= TickerTime <= end, as a MarketDataBlock.  start and end are <<>>
\* (None) or <<t>>.
query_hist_data(table, symbol, datatype, barsize, start, end) ==
    LET s == IF start = <<>> THEN datetime_min ELSE start[1]
        e == IF end = <<>> THEN datetime_max ELSE end[1]
    IN  MarketDataBlock(SetToSeq(
            {r \in table : /\ r.key[1] = symbol /\ r.key[2] = datatype /\ r.key[3] = barsize
                           /\ between(r.key[4], s, e)}))

\* A planner that adds the cached dates to the gaps instead of removing them.
sym_union(A, B) == A \cup B

\* Python's set ^ set
sym_diff(A, B) == (A \ B) \cup (B \ A)

\* sorted(set): the ascending list of a set of numbers.
RECURSIVE sorted(_)
sorted(S) ==
    IF S = {} THEN <<>>
    ELSE LET x == CHOOSE y \in S : \A z \in S : y <= z IN <<x>> \o sorted(S \ {x})

\* HistDataReq(req.SecType, req.Symbol, req.BarSize, dur, end, ...)
HistDataReq(req, timedur, timeend) ==
    [SecType |-> req.SecType, Symbol |-> req.Symbol, BarSize |-> req.BarSize,
     TimeDur |-> timedur, TimeEnd |-> timeend, DataType |-> req.DataType]

\* The loop without its grouping: every gap session a run of its own.
GroupEach(trd_day_gap_idx, i, dur_days) ==
    [j \in DOMAIN trd_day_gap_idx |-> <<1, trd_day_gap_idx[j]>>]

\* The loop that groups consecutive gap sessions: one <<dur_days, idx>> per run.
RECURSIVE GroupRuns(_, _, _)
GroupRuns(trd_day_gap_idx, i, dur_days) ==
    IF i > Len(trd_day_gap_idx) THEN <<>>
    ELSE IF i = Len(trd_day_gap_idx) \/ trd_day_gap_idx[i + 1] > trd_day_gap_idx[i] + 1
         THEN <<<<dur_days, trd_day_gap_idx[i]>>>> \o GroupRuns(trd_day_gap_idx, i + 1, 1)
         ELSE GroupRuns(trd_day_gap_idx, i + 1, dur_days + 1)

Failed(what, se, blk_db) ==
    [status |-> what, dl_reqs |-> <<>>, insert_limit |-> <<>>, blk_db |-> blk_db,
     start_dt |-> se.start_dt, end_dt |-> se.end_dt, trd_days |-> se.trd_days]

\* blk_db_years.remove(now.year) if it is there, with and without its effect.
keep_year(years, yr) == years

remove_year(years, yr) == years \ {yr}

\* The gap years of BarSize >= 1 day, and their requests and insert limits.
SplitByYear(req, now_year, se, blk_db, blk_db_dates) ==
    LET trd_years == IF req.TimeDur[2] = "d"
                     THEN {year(se.trd_days[i]) : i \in DOMAIN se.trd_days}
                     ELSE year(se.start_dt)..year(se.end_dt)
        db_years     == {d \div DaysPerYear : d \in blk_db_dates}
        blk_db_years == remove_year(db_years, now_year)
        trd_year_gap == sorted(sym_diff(trd_years, blk_db_years))
    IN  [status   |-> "ok",
         dl_reqs  |-> [j \in DOMAIN trd_year_gap |->
                          HistDataReq(req, <<1, "Y">>, tzmax(Dec31(trd_year_gap[j])))],
         insert_limit |-> [j \in DOMAIN trd_year_gap |->
                          <<Jan1(trd_year_gap[j]), tzmax(Dec31(trd_year_gap[j] + 1))>>],
         blk_db   |-> blk_db,
         start_dt |-> se.start_dt, end_dt |-> se.end_dt, trd_days |-> se.trd_days]

\* The gap sessions of BarSize < 1 day, grouped into runs.
SplitByDay(req, se, blk_db, blk_db_dates) ==
    LET trd_days    == se.trd_days
        trd_dates   == {date(trd_days[i]) : i \in DOMAIN trd_days}
        trd_day_gap == sorted(sym_diff(trd_dates, blk_db_dates))
    IN  IF \E j \in DOMAIN trd_day_gap : trd_day_gap[j] \notin trd_dates
        THEN Failed("ValueError", se, blk_db)
        ELSE LET trd_day_gap_idx ==
                     [j \in DOMAIN trd_day_gap |->
                         CHOOSE i \in DOMAIN trd_days : date(trd_days[i]) = trd_day_gap[j]]
                 runs == GroupRuns(trd_day_gap_idx, 1, 1)
             IN  [status   |-> "ok",
                  dl_reqs  |-> [j \in DOMAIN runs |->
                                   HistDataReq(req, <<runs[j][1], "d">>,
                                               tzmax(trd_days[runs[j][2]]))],
                  insert_limit |-> [j \in DOMAIN runs |->
                                   <<tzmin(trd_days[runs[j][2] - runs[j][1] + 1]),
                                     tzmax(trd_days[runs[j][2]])>>],
                  blk_db   |-> blk_db,
                  start_dt |-> se.start_dt, end_dt |-> se.end_dt, trd_days |-> se.trd_days]

\* marketdata.query_hist_data_split_req
query_hist_data_split_req(req, now_year, table) ==
    LET se == hist_data_req_start_end(req) IN
    IF BarUnit(req.BarSize) \in {"s", "W", "M"}
    THEN [status |-> "NotImplementedError", dl_reqs |-> <<>>, insert_limit |-> <<>>,
          blk_db |-> <<>>, start_dt |-> 0, end_dt |-> 0, trd_days |-> <<>>]
    ELSE LET blk_db == query_hist_data(table, req.Symbol, req.DataType, req.BarSize,
                                       <<se.start_dt>>, <<se.end_dt>>)
             blk_db_dates == {date(blk_db[i].key[4]) : i \in DOMAIN blk_db}
         IN  IF BarUnit(req.BarSize) \in {"d", "W", "M", "Y"}
             THEN SplitByYear(req, now_year, se, blk_db, blk_db_dates)
             ELSE SplitByDay(req, se, blk_db, blk_db_dates)

(***************************************************************************)
(* SpecPlan: the planner applied to a request, a clock and a cache.        *)
(***************************************************************************)
\* Requests end on the days around the turn of a calendar year.
EndDays == (2 * DaysPerYear - 2)..(2 * DaysPerYear + 1)

EndTimes == {d * TicksPerDay + k : d \in EndDays, k \in 0..(TicksPerDay - 1)}

Durations ==
    {<<n, "d">> : n \in 1..MaxDurDays} \cup {<<n, "h">> : n \in 1..MaxDurTicks}
    \cup {<<1, "W">>, <<1, "M">>, <<1, "Y">>}

Requests ==
    [SecType : {"Stock"}, Symbol : {"AAPL"}, BarSize : {"1d", "5m", "1s", "1W", "1M"},
     TimeDur : Durations, TimeEnd : EndTimes, DataType : {"TRADES"}]

\* Bars the cache may hold for a request: daily bars at 00:00:00 of a
\* session, intraday bars at the first or the last time of a session.
CacheDays == {d \in DaysPerYear..(2 * DaysPerYear + 1) : IsSession(d)}

CacheStamps(barsize) ==
    IF BarUnit(barsize) \in {"h", "m"}
    THEN {d * TicksPerDay + k : d \in CacheDays, k \in {0, TicksPerDay - 1}}
    ELSE {d * TicksPerDay : d \in CacheDays}

Bar(r, t) == [key |-> ReqKey(r, t), cells |-> [c \in Columns |-> {10}]]

Caches(r) ==
    {{Bar(r, t) : t \in S} :
        S \in {X \in SUBSET CacheStamps(r.BarSize) : Cardinality(X) <= MaxCached}}

InitPlan ==
    /\ request \in Requests
    /\ now \in {year(request.TimeEnd), year(request.TimeEnd) + 1}
    /\ db \in Caches(request)
    /\ plan = NoPlan
    /\ BlockIdle
    /\ SyncIdle
    /\ StoreIdle
    /\ PoolIdle
    /\ ZoneIdle
    /\ TextIdle

Plan ==
    /\ plan.status = "none"
    /\ plan' = query_hist_data_split_req(request, now, db)
    /\ UNCHANGED <<request, now, db>>
    /\ UNCHANGED blockVars
    /\ UNCHANGED storeVars
    /\ UNCHANGED <<poolVars, zoneVars, textVars>>
    /\ UNCHANGED syncVars

NextPlan == Plan

SpecPlan == InitPlan /\ [][NextPlan]_vars

(***************************************************************************)
(* SpecSync: one call of get_hist_data, its download_insert_hist_data      *)
(* coroutines interleaved by the event loop.                               *)
(***************************************************************************)
\* A get_hist_data that does not cut the result to the requested window.
no_loc(d, start, end) == d

\* df.loc(axis=0)[:, :, :, start:end]
loc(d, start, end) == SelectSeq(d, LAMBDA r : start <= r.key[4] /\ r.key[4] <= end)

\* What a column of the table keeps of a cell under INSERT IGNORE: volume is
\* an unsigned INTEGER, a negative number is stored as 0; the prices of the
\* model have no more than the two decimals Float(10, 2) keeps.
column_value(c, cell) ==
    IF c = "volume" /\ \E v \in cell : v < 0 THEN {0} ELSE cell

stored_row(r) ==
    [key |-> r.key, cells |-> [c \in Columns |-> column_value(c, r.cells[c])]]

\* An insert that overwrites the stored row of a key (REPLACE).
insert_replace(table, blk) ==
    {r \in table : \A i \in DOMAIN blk : blk[i].key # r.key}
        \cup {stored_row(blk[i]) : i \in DOMAIN blk}

\* insert_hist_data: INSERT IGNORE of the rows of a block; a row whose
\* primary key is already stored (or came earlier in the block) is skipped.
insert_hist_data(table, blk) ==
    table \cup {stored_row(blk[i]) : i \in {j \in DOMAIN blk :
                                  /\ \A r \in table : r.key # blk[j].key
                                  /\ \A k \in 1..(j - 1) : blk[k].key # blk[j].key}}

\* MarketDataBlock.combine
combine(self_df, blk) == update(self_df, blk)

\* for blk_dl in blk_dl_list: blk_ret.combine(blk_dl)
RECURSIVE CombineAll(_, _)
CombineAll(blk, blk_dl_list) ==
    IF blk_dl_list = <<>> THEN blk
    ELSE CombineAll(combine(blk, Head(blk_dl_list)), Tail(blk_dl_list))

\* A gather that returns as soon as one coroutine has a result.
gather_first_completed(ts) == \E j \in DOMAIN ts : ts[j].pc = "done"

\* A gather that returns when every coroutine has ended, failed or not.
gather_return_exceptions(ts) == \A j \in DOMAIN ts : ts[j].pc \in {"done", "failed"}

\* asyncio.gather returns once every coroutine has returned its result.
gather_returns(ts) == \A j \in DOMAIN ts : ts[j].pc = "done"

\* asyncio.gather raises the first exception raised by a coroutine.
gather_raises(ts) == \E j \in DOMAIN ts : ts[j].pc = "failed"

\* A gather that lists results in the order the coroutines completed.
results_as_completed(ts, fin) ==
    [k \in DOMAIN fin |-> ts[fin[k]].blk]

\* asyncio.gather lists the results in the order of the awaitables.
gather_results(ts, fin) == [j \in DOMAIN ts |-> ts[j].blk]

\* Requests ending mid-session, shortly before and at the turn of a year.
SyncEnds == {d * TicksPerDay + 1 : d \in {2 * DaysPerYear - 2, 2 * DaysPerYear}}

SyncRequests ==
    [SecType : {"Stock"}, Symbol : {"AAPL"}, BarSize : {"1d", "5m", "1s", "1W", "1M"},
     TimeDur : {<<MaxDurDays - 1, "d">>, <<1, "W">>}, TimeEnd : SyncEnds, DataType : {"TRADES"}]

\* Time stamps of the bars in the cache and of the bars the broker sends:
\* two sessions inside the windows and a day after every window.
SyncStamps == {(2 * DaysPerYear - 3) * TicksPerDay, (2 * DaysPerYear - 2) * TicksPerDay}

ProviderStamps == SyncStamps \cup {(2 * DaysPerYear + 3) * TicksPerDay}

SyncCaches(r) == {{}} \cup {{Bar(r, t)} : t \in SyncStamps}

\* ib_insync.util.df(bars): a frame with no Symbol, DataType, BarSize column
ProviderBars(r) ==
    {[Symbol |-> r.Symbol, TickerTime |-> t, opening |-> {o}, volume |-> NaN] :
        t \in ProviderStamps, o \in {10, 11}}

\* IB.req_hist_data_async for one request whose bars are not empty
req_hist_data_async(r, bars) ==
    MarketDataBlock(standardize_index(bars, r.DataType, r.BarSize))

Responses(r) == {req_hist_data_async(r, <<b>>) : b \in ProviderBars(r)}

\* The broker sends the same bars whenever it is asked the same request.
Answers(r, sent) ==
    IF \E p \in sent : p[1] = r
    THEN {p[2] : p \in {q \in sent : q[1] = r}}
    ELSE Responses(r)

InitSync ==
    /\ request \in SyncRequests
    /\ now \in {year(request.TimeEnd), year(request.TimeEnd) + 1}
    /\ db \in SyncCaches(request)
    /\ mysql \in BOOLEAN
    /\ plan = NoPlan
    /\ pc = "start"
    /\ engine = "none"
    /\ tasks = <<>>
    /\ finished = <<>>
    /\ blk_ret = <<>>
    /\ combined = 0
    /\ io = NoIo(db)
    /\ first_ret = <<>>
    /\ served = {}
    /\ BlockIdle
    /\ StoreIdle
    /\ PoolIdle
    /\ ZoneIdle
    /\ TextIdle

\* A test for the direct path that looks at the database only.
no_database == ~mysql

\* mysql is None or timedur_standardize(req.BarSize)[-1] is 's'
NoCache == ~mysql \/ BarUnit(request.BarSize) = "s"

\* A coroutine that starts over when a call in it raises.
retry(task) == [task EXCEPT !.pc = "download"]

\* download_insert_hist_data has no handler: what the broker or the insert
\* raises ends the coroutine.
propagate(task) == [task EXCEPT !.pc = "failed"]

\* get_hist_data without a database, or for bars of seconds: the block of
\* the broker is returned as it is.
DirectFetch(ok) ==
    /\ pc = "start"
    /\ NoCache
    /\ IF ok
       THEN \E blk \in Answers(request, served) :
                /\ blk_ret' = blk
                /\ served' = served \cup {<<request, blk>>}
                /\ pc' = "returned"
       ELSE blk_ret' = blk_ret /\ served' = served /\ pc' = "raised"
    /\ io' = [io EXCEPT !.direct = @ + 1,
                        !.failed = IF ok THEN @ ELSE @ \cup {"broker"}]
    /\ UNCHANGED <<request, now, db, plan, mysql, engine, tasks, finished, combined, first_ret>>
    /\ UNCHANGED blockVars
    /\ UNCHANGED storeVars
    /\ UNCHANGED <<poolVars, zoneVars, textVars>>

\* engine = await aio_create_engine(...)
CreateEngine(ok) ==
    /\ pc = "start"
    /\ ~NoCache
    /\ IF ok
       THEN engine' = "open" /\ pc' = "split"
       ELSE engine' = engine /\ pc' = "raised"
    /\ io' = [io EXCEPT !.opened = @ + 1,
                        !.failed = IF ok THEN @ ELSE @ \cup {"engine"}]
    /\ UNCHANGED <<request, now, db, plan, mysql, tasks, finished, blk_ret, combined, first_ret, served>>
    /\ UNCHANGED blockVars
    /\ UNCHANGED storeVars
    /\ UNCHANGED <<poolVars, zoneVars, textVars>>

\* await query_hist_data_split_req(req, xchg_tz, engine), then one
\* download_insert_hist_data coroutine per sub-request is handed to gather.
SplitReq ==
    /\ pc = "split"
    /\ plan' = query_hist_data_split_req(request, now, db)
    /\ IF plan'.status = "ok"
       THEN /\ blk_ret' = plan'.blk_db
            /\ tasks' = [j \in DOMAIN plan'.dl_reqs |-> [pc |-> "download", blk |-> <<>>]]
            /\ pc' = "gather"
       ELSE /\ UNCHANGED <<blk_ret, tasks>>
            /\ pc' = "raised"
    /\ io' = [io EXCEPT !.queried = IF plan'.status = "NotImplementedError" THEN @ ELSE @ + 1,
                        !.fetched = [j \in DOMAIN plan'.dl_reqs |-> 0],
                        !.inserted = [j \in DOMAIN plan'.dl_reqs |-> 0]]
    /\ UNCHANGED <<request, now, db, mysql, engine, finished, combined, first_ret, served>>
    /\ UNCHANGED blockVars
    /\ UNCHANGED storeVars
    /\ UNCHANGED <<poolVars, zoneVars, textVars>>

\* download_insert_hist_data up to its first await: the broker answers
\* with a block or raises.
Download(j, ok) ==
    /\ pc \in {"gather", "raised"}
    /\ j \in DOMAIN tasks
    /\ tasks[j].pc = "download"
    /\ IF ok
       THEN /\ \E blk \in Answers(plan.dl_reqs[j], served) :
                   /\ tasks' = [tasks EXCEPT ![j] = [pc |-> "insert", blk |-> blk]]
                   /\ served' = served \cup {<<plan.dl_reqs[j], blk>>}
            /\ finished' = finished
       ELSE /\ tasks' = [tasks EXCEPT ![j] = propagate(tasks[j])]
            /\ served' = served
            /\ finished' = Append(finished, j)
    /\ io' = [io EXCEPT !.fetched[j] = @ + 1,
                        !.failed = IF ok THEN @ ELSE @ \cup {"broker"}]
    /\ UNCHANGED <<request, now, db, plan, mysql, pc, engine, blk_ret, combined, first_ret>>
    /\ UNCHANGED blockVars
    /\ UNCHANGED storeVars
    /\ UNCHANGED <<poolVars, zoneVars, textVars>>

\* download_insert_hist_data after the download: a copy of the block is cut
\* to the insert limit and inserted; the block of the broker is the result.
Insert(j, ok) ==
    /\ pc \in {"gather", "raised"}
    /\ j \in DOMAIN tasks
    /\ tasks[j].pc = "insert"
    /\ IF ok
       THEN /\ db' = insert_hist_data(db, loc(MarketDataBlock(tasks[j].blk),
                                              plan.insert_limit[j][1],
                                              plan.insert_limit[j][2]))
            /\ tasks' = [tasks EXCEPT ![j].pc = "done"]
       ELSE /\ db' = db
            /\ tasks' = [tasks EXCEPT ![j] = propagate(tasks[j])]
    /\ finished' = Append(finished, j)
    /\ io' = [io EXCEPT !.inserted[j] = @ + 1,
                        !.failed = IF ok THEN @ ELSE @ \cup {"insert"}]
    /\ UNCHANGED <<request, now, plan, mysql, pc, engine, blk_ret, combined, first_ret, served>>
    /\ UNCHANGED blockVars
    /\ UNCHANGED storeVars
    /\ UNCHANGED <<poolVars, zoneVars, textVars>>

\* await asyncio.gather(...) raises in get_hist_data: the engine stays open
\* and the other coroutines stay scheduled.
GatherRaise ==
    /\ pc = "gather"
    /\ gather_raises(tasks)
    /\ pc' = "raised"
    /\ UNCHANGED <<request, now, db, plan, mysql, engine, tasks, finished, blk_ret, combined, io,
                   first_ret, served>>
    /\ UNCHANGED blockVars
    /\ UNCHANGED storeVars
    /\ UNCHANGED <<poolVars, zoneVars, textVars>>

\* await asyncio.gather(...) returns: the blocks are combined into the block
\* of the database in list order, the result is cut to [start_dt, end_dt]
\* and the engine is closed.  Cutting a block that has no rows (a frame with no
\* MultiIndex) may raise.
GatherReturn ==
    /\ pc = "gather"
    /\ gather_returns(tasks)
    /\ LET blk_dl_list == gather_results(tasks, finished)
           blk         == CombineAll(blk_ret, blk_dl_list)
       IN  /\ combined' = Len(blk_dl_list)
           /\ \/ /\ blk_ret' = loc(blk, plan.start_dt, plan.end_dt)
                 /\ engine' = "closed"
                 /\ pc' = "closing"
              \/ /\ blk = <<>>
                 /\ blk_ret' = blk
                 /\ engine' = engine
                 /\ pc' = "raised"
    /\ UNCHANGED <<request, now, db, plan, mysql, tasks, finished, io, first_ret, served>>
    /\ UNCHANGED blockVars
    /\ UNCHANGED storeVars
    /\ UNCHANGED <<poolVars, zoneVars, textVars>>

\* await engine.wait_closed(); return blk_ret
Return ==
    /\ pc = "closing"
    /\ pc' = "returned"
    /\ UNCHANGED <<request, now, db, plan, mysql, engine, tasks, finished, blk_ret, combined, io,
                   first_ret, served>>
    /\ UNCHANGED blockVars
    /\ UNCHANGED storeVars
    /\ UNCHANGED <<poolVars, zoneVars, textVars>>

\* The caller keeps the block of the first call and calls get_hist_data
\* again with the same request, on the table as the first call left it.
Repeat ==
    /\ pc = "returned"
    /\ first_ret = <<>>
    /\ first_ret' = <<blk_ret>>
    /\ pc' = "start"
    /\ plan' = NoPlan
    /\ engine' = "none"
    /\ tasks' = <<>>
    /\ finished' = <<>>
    /\ blk_ret' = <<>>
    /\ combined' = 0
    /\ io' = NoIo(db)
    /\ UNCHANGED <<request, now, db, mysql, served>>
    /\ UNCHANGED blockVars
    /\ UNCHANGED storeVars
    /\ UNCHANGED <<poolVars, zoneVars, textVars>>

NextSync ==
    \/ \E ok \in BOOLEAN : DirectFetch(ok)
    \/ \E ok \in BOOLEAN : CreateEngine(ok)
    \/ SplitReq
    \/ \E j \in 1..(MaxDurDays + 1), ok \in BOOLEAN : Download(j, ok)
    \/ \E j \in 1..(MaxDurDays + 1), ok \in BOOLEAN : Insert(j, ok)
    \/ GatherRaise
    \/ GatherReturn
    \/ Return
    \/ Repeat

SpecSync == InitSync /\ [][NextSync]_vars

(***************************************************************************)
(* The calls on the cache one by one: insert_hist_data,                    *)
(* download_insert_hist_data and query_hist_data on one table (SpecStore). *)
(***************************************************************************)
MaxStoreOps == 2
MaxStamp == 3

StoreStamps == 1..MaxStamp

StoreRequests ==
    [SecType : {"Stock"}, Symbol : {"AAPL"}, BarSize : {"1d"},
     TimeDur : {<<MaxStamp, "d">>}, TimeEnd : {MaxStamp}, DataType : {"TRADES"}]

\* The bars a provider can have of a symbol: one bar per time, and of the
\* first bar of AAPL a second version that has no volume.
StoreBars(symbol) ==
    IF symbol = "AAPL"
    THEN {[Symbol |-> symbol, TickerTime |-> t, opening |-> {10 + t}, volume |-> {500}] :
             t \in StoreStamps}
         \cup {[Symbol |-> symbol, TickerTime |-> 1, opening |-> {10}, volume |-> NaN]}
    ELSE {[Symbol |-> symbol, TickerTime |-> 2, opening |-> {20}, volume |-> {700}]}

\* What a provider answers: no bar, one bar or two bars in time order.
StoreAnswers(symbol) ==
    {<<>>} \cup {<<b>> : b \in StoreBars(symbol)}
           \cup {<<b1, b2>> : b1 \in {b \in StoreBars(symbol) : b.TickerTime = 1},
                              b2 \in {b \in StoreBars(symbol) : b.TickerTime > 1}}

\* The blocks handed to insert_hist_data: blocks of the answers, and blocks
\* that hold a key twice.
StoreBlocks ==
    {MarketDataBlock(standardize_index(f, "TRADES", "1d")) :
        f \in StoreAnswers("AAPL") \cup StoreAnswers("GS")
                \cup {<<b1, b2>> : b1, b2 \in {b \in StoreBars("AAPL") : b.TickerTime = 1}}}

\* The tables a call can find: the empty one, and what an insert leaves.
StoreTables == {insert_hist_data({}, b) : b \in StoreBlocks}

\* Insert limits: none, one time, or two times next to each other.
StoreLimits ==
    {<<>>} \cup {l \in StoreStamps \X StoreStamps : l[1] <= l[2] /\ l[2] <= l[1] + 1}

\* The (start, end) of a query: each of them may be None.
StoreRanges ==
    {<<<<>>, <<>>>>} \cup {<<<<t>>, <<>>>> : t \in StoreStamps}
                    \cup {<<<<>>, <<t>>>> : t \in StoreStamps}
                    \cup {<<<<l[1]>>, <<l[2]>>>> : l \in StoreLimits \ {<<>>}}

\* The block download_insert_hist_data inserts: a copy of the downloaded
\* block, cut to the insert limit if there is one.
insert_copy(blk, insert_limit) ==
    IF insert_limit = <<>>
    THEN MarketDataBlock(blk)
    ELSE loc(MarketDataBlock(blk), insert_limit[1], insert_limit[2])

\* A download_insert_hist_data that returns the block it inserted.
download_insert_clipped(table, blk_list0, insert_limit) ==
    [table |-> insert_hist_data(table, insert_copy(blk_list0, insert_limit)),
     ret   |-> insert_copy(blk_list0, insert_limit)]

\* download_insert_hist_data after the download: the table after the insert
\* of the copy, and the block it returns, blk_list[0].
download_insert_hist_data(table, blk_list0, insert_limit) ==
    [table |-> insert_hist_data(table, insert_copy(blk_list0, insert_limit)),
     ret   |-> blk_list0]

InitStore ==
    /\ db \in StoreTables
    /\ request \in StoreRequests
    /\ now = 0
    /\ plan = NoPlan
    /\ call = NoCall
    /\ nstore = 0
    /\ BlockIdle
    /\ SyncIdle
    /\ PoolIdle
    /\ ZoneIdle
    /\ TextIdle

\* insert_hist_data(engine, sectype, blk)
StoreInsert(blk) ==
    /\ nstore < MaxStoreOps
    /\ db' = insert_hist_data(db, blk)
    /\ call' = [kind |-> "insert", before |-> db, blk |-> blk, limit |-> <<>>,
                q |-> <<>>, ret |-> <<>>]
    /\ nstore' = nstore + 1
    /\ UNCHANGED <<request, now, plan>>
    /\ UNCHANGED blockVars
    /\ UNCHANGED syncVars
    /\ UNCHANGED <<poolVars, zoneVars, textVars>>

\* download_insert_hist_data(req, broker, engine, insert_limit): the whole
\* coroutine; a provider without bars makes req_hist_data_async raise.
StoreDownloadInsert(bars, insert_limit) ==
    /\ nstore < MaxStoreOps
    /\ IF bars = <<>>
       THEN /\ db' = db
            /\ call' = [kind |-> "download_raised", before |-> db, blk |-> <<>>,
                        limit |-> insert_limit, q |-> <<>>, ret |-> <<>>]
       ELSE LET blk_list0 == req_hist_data_async(request, bars)
                done == download_insert_hist_data(db, blk_list0, insert_limit)
            IN  /\ db' = done.table
                /\ call' = [kind |-> "download_insert", before |-> db, blk |-> blk_list0,
                            limit |-> insert_limit, q |-> <<>>, ret |-> done.ret]
    /\ nstore' = nstore + 1
    /\ UNCHANGED <<request, now, plan>>
    /\ UNCHANGED blockVars
    /\ UNCHANGED syncVars
    /\ UNCHANGED <<poolVars, zoneVars, textVars>>

\* query_hist_data(engine, sectype, symbol, datatype, barsize, start, end)
StoreQuery(symbol, start, end) ==
    /\ nstore < MaxStoreOps
    /\ call' = [kind |-> "query", before |-> db, blk |-> <<>>, limit |-> <<>>,
                q |-> <<symbol, request.DataType, request.BarSize, start, end>>,
                ret |-> query_hist_data(db, symbol, request.DataType, request.BarSize,
                                        start, end)]
    /\ nstore' = nstore + 1
    /\ UNCHANGED <<request, now, db, plan>>
    /\ UNCHANGED blockVars
    /\ UNCHANGED syncVars
    /\ UNCHANGED <<poolVars, zoneVars, textVars>>

NextStore ==
    \/ \E blk \in StoreBlocks : StoreInsert(blk)
    \/ \E bars \in StoreAnswers(request.Symbol), lim \in StoreLimits :
           StoreDownloadInsert(bars, lim)
    \/ \E symbol \in {"AAPL", "GS"}, range \in StoreRanges :
           StoreQuery(symbol, range[1], range[2])

SpecStore == InitStore /\ [][NextStore]_vars

(***************************************************************************)
(* IB.connect_async and IB.disconnect of several IB objects on the class's *)
(* semaphore and client id set (SpecPool).                                 *)
(***************************************************************************)
\* An acquire that takes no permit.
acquire_free(value) == value

\* Semaphore.acquire when the value is positive
acquire(value) == value - 1

\* A release that gives no permit back.
release_none(value) == value

\* Semaphore.release
release(value) == value + 1

\* IB._offline_cleanup of an object that is not connected: a release above
\* the bound raises ValueError, a missing clientid raises AttributeError,
\* and the lines after the one that raises are not run.
offline_cleanup(s) ==
    IF sem >= SemCapacity
    THEN /\ fault' = fault \cup {"over_release"}
         /\ UNCHANGED <<sem, clientid_baskets, recycled>>
         /\ ib' = [ib EXCEPT ![s].pc = "idle", ![s].connected = FALSE]
    ELSE /\ sem' = release(sem)
         /\ IF ib[s].clientid = <<>>
            THEN /\ fault' = fault \cup {"no_clientid"}
                 /\ UNCHANGED <<clientid_baskets, recycled>>
            ELSE /\ clientid_baskets' = clientid_baskets \cup {ib[s].clientid[1]}
                 /\ recycled' = TRUE
                 /\ fault' = fault
         /\ ib' = [ib EXCEPT ![s] = [pc |-> "idle", connected |-> FALSE, clientid |-> <<>>]]

InitPool ==
    /\ PoolIdle
    /\ ZoneIdle
    /\ TextIdle
    /\ BlockIdle
    /\ PlanIdle
    /\ SyncIdle
    /\ StoreIdle

\* connect_async up to 'await IB.sem.acquire()'; on a connected object the
\* call does nothing.
ConnectStart(s) ==
    /\ ib[s].pc = "idle"
    /\ ~ib[s].connected
    /\ ib' = [ib EXCEPT ![s].pc = "acquire"]
    /\ UNCHANGED <<sem, clientid_baskets, fault, recycled, again>>
    /\ UNCHANGED <<blockVars, planVars, syncVars, storeVars, zoneVars, textVars>>

\* The acquire returns, which needs a permit; host, port and clientid are
\* set, the id is any of the set (set.pop), KeyError if there is none.
Acquire(s) ==
    /\ ib[s].pc = "acquire"
    /\ sem > 0
    /\ sem' = acquire(sem)
    /\ IF clientid_baskets = {}
       THEN /\ fault' = fault \cup {"pop_empty"}
            /\ ib' = [ib EXCEPT ![s].pc = "idle"]
            /\ UNCHANGED clientid_baskets
       ELSE /\ \E id \in clientid_baskets :
                   /\ clientid_baskets' = clientid_baskets \ {id}
                   /\ ib' = [ib EXCEPT ![s].pc = "connectAsync", ![s].clientid = <<id>>]
            /\ fault' = fault
    /\ UNCHANGED <<recycled, again>>
    /\ UNCHANGED <<blockVars, planVars, syncVars, storeVars, zoneVars, textVars>>

\* 'await self.connectAsync(...)' ends and _offline_cleanup runs: the
\* object is connected, or it is not and the cleanup gives permit and id
\* back, or connectAsync raised and the cleanup is not reached.
ConnectEnd(s, outcome) ==
    /\ ib[s].pc = "connectAsync"
    /\ CASE outcome = "connected" ->
              /\ ib' = [ib EXCEPT ![s].pc = "idle", ![s].connected = TRUE]
              /\ UNCHANGED <<sem, clientid_baskets, fault, recycled>>
         [] outcome = "offline" -> offline_cleanup(s)
         [] outcome = "raised" ->
              /\ ib' = [ib EXCEPT ![s].pc = "idle"]
              /\ fault' = fault \cup {"connect_failed"}
              /\ UNCHANGED <<sem, clientid_baskets, recycled>>
    /\ UNCHANGED again
    /\ UNCHANGED <<blockVars, planVars, syncVars, storeVars, zoneVars, textVars>>

\* IB.disconnect: on a connected object super().disconnect() and the
\* cleanup; on an object that is not connected nothing.
Disconnect(s) ==
    /\ ib[s].pc = "idle"
    /\ ib[s].connected
    /\ offline_cleanup(s)
    /\ UNCHANGED again
    /\ UNCHANGED <<blockVars, planVars, syncVars, storeVars, zoneVars, textVars>>

\* The connection is lost from the other side: isConnected() turns False and
\* no code of IB runs.
ConnectionLost(s) ==
    /\ ib[s].pc = "idle"
    /\ ib[s].connected
    /\ ib' = [ib EXCEPT ![s].connected = FALSE]
    /\ fault' = fault \cup {"connection_lost"}
    /\ UNCHANGED <<sem, clientid_baskets, recycled, again>>
    /\ UNCHANGED <<blockVars, planVars, syncVars, storeVars, zoneVars, textVars>>

\* The object on which a second connect_async is called while the first
\* has not ended (SpecTwice).
Twice == {1}

\* A second connect_async on an object whose first call waits in acquire or
\* in connectAsync: the object is not connected, the call goes on.
ConnectAgain(s) ==
    /\ s \in Twice
    /\ again[s] = "idle"
    /\ ib[s].pc \in {"acquire", "connectAsync"}
    /\ ~ib[s].connected
    /\ again' = [again EXCEPT ![s] = "acquire"]
    /\ fault' = fault \cup {"overlap"}
    /\ UNCHANGED <<sem, clientid_baskets, ib, recycled>>
    /\ UNCHANGED <<blockVars, planVars, syncVars, storeVars, zoneVars, textVars>>

\* The acquire of the second call returns; self.clientid is set again.
AcquireAgain(s) ==
    /\ again[s] = "acquire"
    /\ sem > 0
    /\ sem' = acquire(sem)
    /\ IF clientid_baskets = {}
       THEN /\ fault' = fault \cup {"pop_empty"}
            /\ again' = [again EXCEPT ![s] = "idle"]
            /\ UNCHANGED <<clientid_baskets, ib>>
       ELSE /\ \E id \in clientid_baskets :
                   /\ clientid_baskets' = clientid_baskets \ {id}
                   /\ ib' = [ib EXCEPT ![s].clientid = <<id>>]
            /\ again' = [again EXCEPT ![s] = "connectAsync"]
            /\ fault' = fault
    /\ UNCHANGED recycled
    /\ UNCHANGED <<blockVars, planVars, syncVars, storeVars, zoneVars, textVars>>

\* connectAsync of the second call ends and _offline_cleanup runs, as in
\* ConnectEnd; the first call stays where it is.
ConnectAgainEnd(s, outcome) ==
    /\ again[s] = "connectAsync"
    /\ again' = [again EXCEPT ![s] = "idle"]
    /\ CASE outcome = "connected" ->
              /\ ib' = [ib EXCEPT ![s].connected = TRUE]
              /\ UNCHANGED <<sem, clientid_baskets, fault, recycled>>
         [] outcome = "offline" ->
              IF sem >= SemCapacity
              THEN /\ fault' = fault \cup {"over_release"}
                   /\ UNCHANGED <<sem, clientid_baskets, recycled>>
                   /\ ib' = [ib EXCEPT ![s].connected = FALSE]
              ELSE /\ sem' = release(sem)
                   /\ IF ib[s].clientid = <<>>
                      THEN /\ fault' = fault \cup {"no_clientid"}
                           /\ UNCHANGED <<clientid_baskets, recycled>>
                      ELSE /\ clientid_baskets' = clientid_baskets \cup {ib[s].clientid[1]}
                           /\ recycled' = TRUE
                           /\ fault' = fault
                   /\ ib' = [ib EXCEPT ![s].connected = FALSE, ![s].clientid = <<>>]
         [] outcome = "raised" ->
              /\ fault' = fault \cup {"connect_failed"}
              /\ UNCHANGED <<sem, clientid_baskets, ib, recycled>>
    /\ UNCHANGED <<blockVars, planVars, syncVars, storeVars, zoneVars, textVars>>

NextPool ==
    \/ \E s \in Sessions : ConnectStart(s)
    \/ \E s \in Sessions : Acquire(s)
    \/ \E s \in Sessions, outcome \in {"connected", "offline", "raised"} : ConnectEnd(s, outcome)
    \/ \E s \in Sessions : Disconnect(s)
    \/ \E s \in Sessions : ConnectionLost(s)

SpecPool == InitPool /\ [][NextPool]_vars

(***************************************************************************)
(* SpecTwice: the calls on one IB object, where a second connect_async may *)
(* begin before the first has ended.                                       *)
(***************************************************************************)
NextTwice ==
    \/ \E s \in Twice : ConnectStart(s)
    \/ \E s \in Twice : Acquire(s)
    \/ \E s \in Twice, outcome \in {"connected", "offline", "raised"} : ConnectEnd(s, outcome)
    \/ \E s \in Twice : Disconnect(s)
    \/ \E s \in Twice : ConnectionLost(s)
    \/ \E s \in Twice : ConnectAgain(s)
    \/ \E s \in Twice : AcquireAgain(s)
    \/ \E s \in Twice, outcome \in {"connected", "offline", "raised"} :
           ConnectAgainEnd(s, outcome)

SpecTwice == InitPool /\ [][NextTwice]_vars

(***************************************************************************)
(* Time zones.  A row of a block is its TickerTime, written as the wall    *)
(* clock time it shows (in hours) and the zone it carries (<<zone>>, or    *)
(* <<>> for a naive time), and one value column.  Zones have their         *)
(* standard-time offsets; daylight saving is left out.                     *)
(***************************************************************************)
\* utils.timezone_abbrv, in the order of the dictionary.
timezone_abbrv ==
    << << <<"A", "S", "T">>,      "America/Halifax" >>,
       << <<"E", "S", "T">>,      "US/Eastern" >>,
       << <<"E", "D", "T">>,      "US/Eastern" >>,
       << <<"C", "S", "T">>,      "US/Central" >>,
       << <<"C", "D", "T">>,      "US/Central" >>,
       << <<"M", "S", "T">>,      "US/Mountain" >>,
       << <<"M", "D", "T">>,      "US/Mountain" >>,
       << <<"P", "S", "T">>,      "US/Pacific" >>,
       << <<"P", "D", "T">>,      "US/Pacific" >>,
       << <<"A", "K", "S", "T">>, "US/Alaska" >>,
       << <<"A", "K", "D", "T">>, "US/Alaska" >>,
       << <<"H", "S", "T">>,      "US/Hawaii" >>,
       << <<"H", "A", "S", "T">>, "US/Hawaii" >>,
       << <<"H", "A", "D", "T">>, "US/Hawaii" >>,
       << <<"S", "S", "T">>,      "US/Samoa" >>,
       << <<"S", "D", "T">>,      "US/Samoa" >> >>

\* tzinfo.utcoffset of a zone, in hours.
utcoffset(zone) ==
    CASE zone = "UTC"             -> 0
      [] zone = "Europe/London"   -> 0
      [] zone = "America/Halifax" -> 0 - 4
      [] zone = "US/Eastern"      -> 0 - 5
      [] zone = "US/Central"      -> 0 - 6
      [] zone = "US/Mountain"     -> 0 - 7
      [] zone = "US/Pacific"      -> 0 - 8
      [] zone = "US/Alaska"       -> 0 - 9
      [] zone = "US/Hawaii"       -> 0 - 10
      [] zone = "US/Samoa"        -> 0 - 11

\* abbrv in timezone_id
Contains(abbrv, timezone_id) ==
    \E i \in 0..(Len(timezone_id) - Len(abbrv)) :
        SubSeq(timezone_id, i + 1, i + Len(abbrv)) = abbrv

\* IB.hist_data_req_timezone: the zone of the first abbreviation found in
\* the contract's timeZoneId, <<>> (None) when the loop finds none.
hist_data_req_timezone(timezone_id) ==
    LET hits == {i \in DOMAIN timezone_abbrv : Contains(timezone_abbrv[i][1], timezone_id)}
    IN  IF hits = {} THEN <<>>
        ELSE <<timezone_abbrv[CHOOSE i \in hits : \A j \in hits : i <= j][2]>>

\* The instant of an aware TickerTime, in hours UTC.
Instant(r) == r.wall - utcoffset(r.tz[1])

IsNaive(index) == \E r \in index : r.tz = <<>>

\* DataFrame.tz_localize(tz): a naive time is read as wall clock time of tz.
tz_localize(index, tz) == {[r EXCEPT !.tz = <<tz>>] : r \in index}

\* DataFrame.tz_convert(tz) of aware times: the same instants shown in tz;
\* tz None gives naive times in UTC.
tz_convert(index, tz) ==
    IF tz = <<>>
    THEN {[r EXCEPT !.wall = Instant(r), !.tz = <<>>] : r \in index}
    ELSE {[r EXCEPT !.wall = Instant(r) + utcoffset(tz[1]), !.tz = tz] : r \in index}

\* MarketDataBlock._standardize_index, the time zone part: naive times and
\* times with a datetime.timezone are brought to tz.
standardize_tz(index, tz) ==
    IF IsNaive(index) THEN tz_localize(index, tz) ELSE tz_convert(index, <<tz>>)

\* MarketDataBlock.tzinfo of a block with rows.
tzinfo(index) == (CHOOSE r \in index : TRUE).tz

\* MarketDataBlock.combine(blk): blk's rows in the zone of self, and the
\* rows of self at the other times.
combine_tz(self, blk) ==
    IF blk = {} THEN self
    ELSE IF self = {} THEN blk
    ELSE LET df_in == tz_convert(blk, tzinfo(self))
         IN  df_in \cup {r \in self : \A x \in df_in : Instant(x) # Instant(r)}

\* What the provider sends for the bars of a request: dates (naive, of the
\* exchange's calendar) for bars of a day or more, times in UTC otherwise.
ProviderDf(c) ==
    IF BarUnit(c.BarSize) \in {"d", "W", "M"}
    THEN {[wall |-> b.instant + utcoffset(c.zone), tz |-> <<>>, closing |-> b.closing] :
             b \in c.bars}
    ELSE {[wall |-> b.instant, tz |-> <<"UTC">>, closing |-> b.closing] : b \in c.bars}

\* IB.req_hist_data_async for one request, the time zones of its block.
req_hist_data_tz(c) ==
    LET xchg_tz == hist_data_req_timezone(c.timeZoneId)
        dl_tz   == IF BarUnit(c.BarSize) \in {"d", "W", "M"} THEN xchg_tz ELSE <<"UTC">>
        df_in   == ProviderDf(c)
    IN  IF df_in = {} THEN [status |-> "ok", index |-> {}]
        ELSE IF dl_tz = <<>> THEN [status |-> "ValueError", index |-> {}]
        ELSE [status |-> "ok",
              index  |-> tz_convert(standardize_tz(df_in, dl_tz[1]), xchg_tz)]

\* query_hist_data: the stored times are naive UTC; they are localized to
\* UTC and shown in the zone of start, which is xchg_tz.
query_tz(c, xchg_tz) ==
    LET df_in == {[wall |-> b.instant, tz |-> <<>>, closing |-> b.closing] : b \in c.stored}
    IN  IF df_in = {} THEN {} ELSE tz_convert(standardize_tz(df_in, "UTC"), xchg_tz)

\* get_hist_data, the time zones of the block it returns.
get_hist_data_tz(c) ==
    LET xchg_tz == hist_data_req_timezone(c.timeZoneId)
        blk     == req_hist_data_tz(c)
    IN  IF ~c.mysql \/ BarUnit(c.BarSize) = "s"
        THEN IF blk.status # "ok" \/ blk.index = {} THEN blk
             ELSE IF IsNaive(blk.index) THEN [status |-> "TypeError", index |-> {}]
             ELSE [status |-> "ok", index |-> tz_convert(blk.index, xchg_tz)]
        ELSE IF xchg_tz = <<>> THEN [status |-> "AttributeError", index |-> {}]
        ELSE IF blk.status # "ok" THEN blk
        ELSE [status |-> "ok", index |-> combine_tz(query_tz(c, xchg_tz), blk.index)]

\* The zones a caller re-expresses a block in.
Zones == {"UTC", "US/Eastern", "US/Hawaii", "Europe/London"}

\* timeZoneId of the contract details and the zone of the exchange it names.
ContractDetails ==
    { [timeZoneId |-> <<"E", "S", "T">>, zone |-> "US/Eastern"],
      [timeZoneId |-> <<"E", "S", "T", "5", "E", "D", "T">>, zone |-> "US/Eastern"],
      [timeZoneId |-> <<"C", "S", "T">>, zone |-> "US/Central"],
      [timeZoneId |-> <<"H", "S", "T">>, zone |-> "US/Hawaii"],
      [timeZoneId |-> <<"H", "A", "S", "T">>, zone |-> "US/Hawaii"],
      [timeZoneId |-> <<"G", "M", "T">>, zone |-> "Europe/London"] }

\* The bars of the request: their instants in hours UTC and a value.
ZoneBars == {[instant |-> 20, closing |-> 7], [instant |-> 44, closing |-> 9]}

InitZone ==
    /\ \E d \in ContractDetails, barsize \in {"1d", "5m", "1s"}, m \in BOOLEAN,
          bars \in SUBSET ZoneBars, stored \in SUBSET ZoneBars :
          contract = [timeZoneId |-> d.timeZoneId, zone |-> d.zone, BarSize |-> barsize,
                      mysql |-> m, bars |-> bars, stored |-> stored]
    /\ blk_list = NoBlk
    /\ blk_sync = NoBlk
    /\ moved = NoMove
    /\ BlockIdle
    /\ PlanIdle
    /\ SyncIdle
    /\ StoreIdle
    /\ PoolIdle
    /\ TextIdle

\* broker.req_hist_data_async(req)
ReqHistData ==
    /\ blk_list = NoBlk
    /\ blk_list' = req_hist_data_tz(contract)
    /\ UNCHANGED <<contract, blk_sync, moved>>
    /\ UNCHANGED <<blockVars, planVars, syncVars, storeVars, poolVars, textVars>>

\* get_hist_data(req, broker, mysql)
GetHistData ==
    /\ blk_sync = NoBlk
    /\ blk_sync' = get_hist_data_tz(contract)
    /\ UNCHANGED <<contract, blk_list, moved>>
    /\ UNCHANGED <<blockVars, planVars, syncVars, storeVars, poolVars, textVars>>

\* blk.tz_convert(tz) on a returned block with rows; on naive times pandas
\* raises TypeError.
TzConvert(blk, tz) ==
    /\ blk.status = "ok" /\ blk.index # {}
    /\ moved' = IF IsNaive(blk.index)
                THEN [status |-> "TypeError", before |-> blk.index, after |-> blk.index,
                      tz |-> <<tz>>]
                ELSE [status |-> "ok", before |-> blk.index,
                      after |-> tz_convert(blk.index, <<tz>>), tz |-> <<tz>>]
    /\ UNCHANGED <<contract, blk_list, blk_sync>>
    /\ UNCHANGED <<blockVars, planVars, syncVars, storeVars, poolVars, textVars>>

NextZone ==
    \/ ReqHistData
    \/ GetHistData
    \/ \E blk \in {blk_list, blk_sync}, tz \in Zones : TzConvert(blk, tz)

SpecZone == InitZone /\ [][NextZone]_vars

(***************************************************************************)
(* The texts of a request.  A text is a sequence of characters; the        *)
(* result of a conversion is the standard text, or the exception raised.   *)
(***************************************************************************)
Digits == {"0", "1", "2", "3", "4", "5", "6", "7", "8", "9"}

Lowers ==
    <<"a", "b", "c", "d", "e", "f", "g", "h", "i", "j", "k", "l", "m",
      "n", "o", "p", "q", "r", "s", "t", "u", "v", "w", "x", "y", "z">>

Capitals ==
    <<"A", "B", "C", "D", "E", "F", "G", "H", "I", "J", "K", "L", "M",
      "N", "O", "P", "Q", "R", "S", "T", "U", "V", "W", "X", "Y", "Z">>

\* [a-zA-Z]
IsLetter(ch) == \E i \in DOMAIN Lowers : ch = Lowers[i] \/ ch = Capitals[i]

\* str.lower and str.upper of one character
lower(ch) ==
    IF \E i \in DOMAIN Capitals : Capitals[i] = ch
    THEN Lowers[CHOOSE i \in DOMAIN Capitals : Capitals[i] = ch] ELSE ch

upper(ch) ==
    IF \E i \in DOMAIN Lowers : Lowers[i] = ch
    THEN Capitals[CHOOSE i \in DOMAIN Lowers : Lowers[i] = ch] ELSE ch

\* re.findall('\d+', timedur)[0]: the first run of digits, <<>> if there is none.
FirstNumber(timedur) ==
    LET at == {i \in DOMAIN timedur : timedur[i] \in Digits}
    IN  IF at = {} THEN <<>>
        ELSE LET a == CHOOSE i \in at : \A j \in at : i <= j
                 b == CHOOSE j \in at :
                        /\ \A k \in a..j : k \in at
                        /\ \A l \in at : (\A k \in a..l : k \in at) => l <= j
             IN  SubSeq(timedur, a, b)

Raised(what) == [status |-> what, value |-> <<>>]

Standard(num, unit) == [status |-> "ok", value |-> num \o <<unit>>]

\* The keyword table of timedur_standardize, in the order of the dictionary.
unit_map ==
    << << <<"s", "e", "c">>,      "s" >>,
       << <<"m", "i", "n">>,      "m" >>,
       << <<"h", "o", "u", "r">>, "h" >>,
       << <<"h", "r">>,           "h" >>,
       << <<"d", "a", "y">>,      "d" >>,
       << <<"w", "k">>,           "W" >>,
       << <<"w", "e", "e", "k">>, "W" >>,
       << <<"m", "o">>,           "M" >>,
       << <<"m", "o", "n">>,      "M" >>,
       << <<"y", "r">>,           "Y" >>,
       << <<"y", "e", "a", "r">>, "Y" >> >>

\* re.findall(k, timedur) finds something
find(k, timedur) == Contains(k, timedur)

\* utils.timedur_standardize
timedur_standardize(timedur) ==
    LET timedur_num  == FirstNumber(timedur)
        timedur_strs == SelectSeq(timedur, IsLetter)
    IN  IF timedur_num = <<>> THEN Raised("IndexError")
        ELSE IF Len(timedur_strs) = 1
        THEN IF lower(timedur_strs[1]) \notin {"s", "m", "h", "d", "w", "y"}
             THEN Raised("Exception")
             ELSE IF timedur_strs[1] \in {"w", "W", "M", "y", "Y"}
                  THEN Standard(timedur_num, upper(timedur_strs[1]))
                  ELSE Standard(timedur_num, lower(timedur_strs[1]))
        ELSE LET hits == {i \in DOMAIN unit_map : find(unit_map[i][1], timedur)}
             IN  IF hits = {} THEN Raised("TypeError")
                 ELSE Standard(timedur_num,
                               unit_map[CHOOSE i \in hits : \A j \in hits : i <= j][2])

\* The keys of IB_barsize_map in utils.barsize_to_IB.
IB_barsize_map ==
    { <<"1", "s">>, <<"5", "s">>, <<"1", "0", "s">>, <<"1", "5", "s">>, <<"3", "0", "s">>,
      <<"1", "m">>, <<"2", "m">>, <<"3", "m">>, <<"5", "m">>, <<"1", "0", "m">>,
      <<"1", "5", "m">>, <<"2", "0", "m">>, <<"3", "0", "m">>,
      <<"1", "h">>, <<"2", "h">>, <<"3", "h">>, <<"4", "h">>, <<"8", "h">>,
      <<"1", "d">>, <<"1", "W">>, <<"1", "M">> }

\* utils.barsize_to_IB: the outcome
barsize_to_IB(barsize) ==
    LET timedur == timedur_standardize(barsize)
    IN  IF timedur.status # "ok" THEN timedur
        ELSE IF timedur.value \in IB_barsize_map THEN timedur ELSE Raised("KeyError")

\* utils.timedur_to_IB: the outcome
timedur_to_IB(timedur) ==
    LET tdur == timedur_standardize(timedur)
    IN  IF tdur.status # "ok" THEN tdur
        ELSE IF tdur.value[Len(tdur.value)] \in {"m", "h", "s", "d", "W", "M", "Y"}
             THEN tdur ELSE Raised("TypeError")

\* HistDataReq.__init__: the BarSize setter, then the TimeDur setter.
HistDataReqTexts(barsize, timedur) ==
    LET b == timedur_standardize(barsize)
        t == timedur_standardize(timedur)
    IN  IF b.status # "ok"
        THEN [status |-> b.status, BarSize |-> <<b>>, TimeDur |-> <<>>]
        ELSE [status |-> t.status, BarSize |-> <<b>>, TimeDur |-> <<t>>]

\* IB._hist_data_req_to_args: timedur_to_IB, then barsize_to_IB.
hist_data_req_to_args(barsize, timedur) ==
    IF timedur_to_IB(timedur).status # "ok" THEN timedur_to_IB(timedur).status
    ELSE barsize_to_IB(barsize).status

\* timedur_standardize(req.BarSize)[-1] of the constructed request
BarSizeUnit ==
    LET barsize == timedur_standardize(parsed.BarSize[1].value).value
    IN  barsize[Len(barsize)]

\* The Duration of the sub-requests of the planner: '1y', or '<n>d'.
SubTimeDur ==
    IF BarSizeUnit \in {"d", "W", "M", "Y"} THEN <<"1", "y">> ELSE <<"1", "d">>

Txt(num, word) == <<num, " ">> \o word

\* What a user writes for a bar size or a duration.
Texts ==
    { Txt("5", <<"m", "i", "n">>), Txt("5", <<"M", "i", "n">>), Txt("5", <<"M", "I", "N">>),
      Txt("1", <<"d", "a", "y">>), Txt("1", <<"D", "a", "y">>), Txt("1", <<"D", "A", "Y">>),
      Txt("1", <<"w", "e", "e", "k">>), Txt("1", <<"W", "E", "E", "K">>),
      Txt("7", <<"m", "i", "n", "s">>), Txt("2", <<"d", "a", "y", "s">>),
      Txt("1", <<"y", "e", "a", "r">>),
      <<"5", "m">>, <<"1", "M">>, <<"1", "d">>, <<"1", "D">>, <<"3", "0", "s">>,
      <<"5", "x">>, <<"m", "i", "n">> }

InitText ==
    /\ text \in [BarSize : Texts, TimeDur : Texts, mysql : BOOLEAN]
    /\ parsed = NoParse
    /\ phase = "written"
    /\ BlockIdle
    /\ PlanIdle
    /\ SyncIdle
    /\ StoreIdle
    /\ PoolIdle
    /\ ZoneIdle

\* req = HistDataReq(sectype, symbol, barsize, timedur, ...)
Construct ==
    /\ phase = "written"
    /\ parsed' = HistDataReqTexts(text.BarSize, text.TimeDur)
    /\ phase' = IF parsed'.status = "ok" THEN "constructed" ELSE "raised_at_construction"
    /\ UNCHANGED text
    /\ UNCHANGED <<blockVars, planVars, syncVars, storeVars, poolVars, zoneVars>>

\* get_hist_data(req, broker, mysql) up to its first call of the broker for
\* bars: without a database or for bars of seconds the request goes to
\* req_hist_data_async; otherwise the planner raises NotImplementedError for
\* bars of s, W, M, or splits the request, and the sub-requests are handed
\* to gather (the table is empty: there is a gap).
Start ==
    /\ phase = "constructed"
    /\ phase' = IF ~text.mysql \/ BarSizeUnit = "s"
                THEN IF hist_data_req_to_args(parsed.BarSize[1].value,
                                              parsed.TimeDur[1].value) = "ok"
                     THEN "with_broker" ELSE "raised_direct"
                ELSE IF BarSizeUnit \in {"s", "W", "M"}
                     THEN "not_implemented" ELSE "gather"
    /\ UNCHANGED <<text, parsed>>
    /\ UNCHANGED <<blockVars, planVars, syncVars, storeVars, poolVars, zoneVars>>

\* download_insert_hist_data(req_i, ...) of a sub-request under gather:
\* HistDataReq of the sub-request was built by the planner, and
\* req_hist_data_async converts its texts for the broker.
TaskArgs ==
    /\ phase = "gather"
    /\ LET sub == HistDataReqTexts(parsed.BarSize[1].value, SubTimeDur)
       IN  phase' = IF hist_data_req_to_args(sub.BarSize[1].value, sub.TimeDur[1].value) = "ok"
                    THEN "with_broker" ELSE "raised_in_task"
    /\ UNCHANGED <<text, parsed>>
    /\ UNCHANGED <<blockVars, planVars, syncVars, storeVars, poolVars, zoneVars>>

NextText ==
    \/ Construct
    \/ Start
    \/ TaskArgs

SpecText == InitText /\ [][NextText]_vars

(***************************************************************************)
(* Properties of MarketDataBlock (SpecBlock).                              *)
(***************************************************************************)
CountAt(d, k) == Len(RowsAt(d, k))

RowSet(d) == {d[i] : i \in DOMAIN d}

\* The rows of d at the positions S, in d's order.
Pick(d, S) ==
    [j \in 1..Cardinality(S) |->
        d[CHOOSE i \in S : Cardinality({x \in S : x < i}) = j - 1]]

IsRowSubset(r, d) == \E S \in SUBSET DOMAIN d : r = Pick(d, S)

ExpectedCell(x, y, c) ==
    IF x # <<>> /\ ~isna(x[1].cells[c]) THEN x[1].cells[c]
    ELSE IF y # <<>> THEN y[1].cells[c]
    ELSE {FillValue}

OrNone(d, k) == IF RowsAt(d, k) = <<>> THEN {<<>>} ELSE {<<r>> : r \in RowSet(RowsAt(d, k))}

\* C4: update(rows) on a non-empty block keeps every row of the block, has
\* the union of both key sets, and leaves in every cell the incoming value
\* where that is not null and the block's prior value otherwise; and the
\* block built by successive updates equals the block constructed directly
\* from the merged rows.
C4_UpdateMergesCellwise ==
    /\ (op.kind = "update" /\ op.prev # <<>> /\ op.arg # <<>>) =>
          /\ KeysOf(df) = KeysOf(op.prev) \cup KeysOf(op.arg)
          /\ \A k \in KeysOf(op.prev) : CountAt(df, k) >= CountAt(op.prev, k)
          /\ \A i \in DOMAIN df :
                \E x \in OrNone(op.arg, df[i].key) : \E y \in OrNone(op.prev, df[i].key) :
                    \A c \in Columns : df[i].cells[c] = ExpectedCell(x, y, c)
    /\ merged.ok => df = MarketDataBlock(SetToSeq(merged.rows))

\* A state where update() met a key of the block with a null cell over a
\* concrete one and a concrete cell over a different one, and added a new key.
C4_Witness ==
    /\ op.kind = "update" /\ op.prev # <<>> /\ merged.ok
    /\ \E i \in DOMAIN op.arg : \E j \in DOMAIN op.prev :
          /\ op.arg[i].key = op.prev[j].key
          /\ \E c \in Columns : isna(op.arg[i].cells[c]) /\ op.prev[j].cells[c] # {FillValue}
          /\ \E c \in Columns : /\ ~isna(op.arg[i].cells[c])
                                 /\ op.prev[j].cells[c] # {FillValue}
                                 /\ op.arg[i].cells[c] # op.prev[j].cells[c]
    /\ \E i \in DOMAIN op.arg : op.arg[i].key \notin KeysOf(op.prev)

\* C5: combining a block with a block made of a subset of its own rows
\* leaves it as it was.
C5_MergeIdempotence ==
    (op.kind = "combine" /\ IsRowSubset(op.arg, op.prev)) => df = op.prev

\* C6: no two rows of a block share a key, whatever the input rows.
C6_KeyUniqueness == ~HasDupKeys(df) /\ ~HasDupKeys(other)

(***************************************************************************)
(* Properties of the gap planner (SpecPlan).                               *)
(***************************************************************************)
\* T: the required trading dates of the planned request.
RequiredDates == {date(plan.trd_days[i]) : i \in DOMAIN plan.trd_days}

\* C: the trading dates for which the cache holds a row of the request's key.
CachedDates ==
    {date(r.key[4]) : r \in {x \in db : /\ x.key[1] = request.Symbol
                                         /\ x.key[2] = request.DataType
                                         /\ x.key[3] = request.BarSize}}

\* The cached rows the planner looks at: those inside [requiredStart, requiredEnd].
WindowDates == {date(plan.blk_db[i].key[4]) : i \in DOMAIN plan.blk_db}

WindowYears == {d \div DaysPerYear : d \in WindowDates}

\* The years the planner requires for BarSize >= 1 day.
RequiredYears ==
    IF request.TimeDur[2] = "d"
    THEN {d \div DaysPerYear : d \in RequiredDates}
    ELSE year(plan.start_dt)..year(plan.end_dt)

\* The sessions a sub-request asks the provider for: the n sessions up to
\* the date of its TimeEnd for "<n>d", the sessions of the year for "1Y".
SessionsOf(sub) ==
    LET last == date(sub.TimeEnd)
        upto == {d \in 0..last : IsSession(d)}
    IN  IF sub.TimeDur[2] = "Y"
        THEN {d \in upto : year(d * TicksPerDay) = year(sub.TimeEnd)}
        ELSE {d \in upto : Cardinality({e \in upto : e >= d}) <= sub.TimeDur[1]}

Covered == UNION {SessionsOf(plan.dl_reqs[j]) : j \in DOMAIN plan.dl_reqs}

IsCoarse == BarUnit(request.BarSize) \in {"d", "W", "M", "Y"}

\* C1: gap completeness.  Whenever the planner returns a plan, every
\* required session is either covered by a sub-request or cached: no
\* required session is left both unfetched and uncached.
C1_GapCompleteness ==
    plan.status = "ok" => RequiredDates \subseteq (Covered \cup (CachedDates \cap RequiredDates))

WindowMatches ==
    IF IsCoarse
    THEN WindowYears = RequiredYears /\ now \notin RequiredYears
    ELSE WindowDates = RequiredDates

Required == hist_data_req_start_end(request)

InWindow(d) ==
    \A i \in DOMAIN d : Required.start_dt <= d[i].key[4] /\ d[i].key[4] <= Required.end_dt

IsAscending(d) ==
    \A i \in 1..(Len(d) - 1) : KeyLess(d[i].key, d[i + 1].key) \/ d[i].key = d[i + 1].key

\* The sub-requests whose downloaded block holds key k.
Holders(k) == {j \in DOMAIN tasks : k \in KeysOf(tasks[j].blk)}

\* The row of key k as the request, the cache and the downloaded blocks
\* determine it: the row of the last sub-request, in plan order, that
\* delivered the key; the cached row if none did.
RowFor(k) ==
    IF Holders(k) = {}
    THEN RowsAt(plan.blk_db, k)[1]
    ELSE LET j == CHOOSE x \in Holders(k) : \A y \in Holders(k) : y <= x
         IN  RowsAt(tasks[j].blk, k)[1]

ResultKeys ==
    {k \in KeysOf(plan.blk_db) \cup UNION {KeysOf(tasks[j].blk) : j \in DOMAIN tasks} :
        Required.start_dt <= k[4] /\ k[4] <= Required.end_dt}

\* C8: the block get_hist_data returns is determined by the request, the
\* cached block and the downloaded blocks alone, not by the order in which
\* the coroutines complete, and its rows ascend by the composite key.
C8_OrderIndependent ==
    (pc = "returned" /\ ~NoCache)
        => /\ IsAscending(blk_ret)
           /\ Len(blk_ret) = Cardinality(ResultKeys)
           /\ \A i \in DOMAIN blk_ret :
                 blk_ret[i].key \in ResultKeys /\ blk_ret[i] = RowFor(blk_ret[i].key)

\* Two sub-requests delivered different rows for one key of the window, the
\* second sub-request completed first, and the call has returned.
C8_Witness ==
    /\ pc = "returned"
    /\ Len(tasks) >= 2
    /\ finished[1] > finished[2]
    /\ \E k \in ResultKeys :
          /\ Cardinality(Holders(k)) >= 2
          /\ \E x, y \in Holders(k) :
                RowsAt(tasks[x].blk, k) # RowsAt(tasks[y].blk, k)

C10_FailureAborts == gather_raises(tasks) => pc \in {"gather", "raised"}

\* The call has raised after one sub-request failed and another succeeded.
C10_Witness ==
    /\ pc = "raised"
    /\ \E j \in DOMAIN tasks : tasks[j].pc = "failed"
    /\ \E j \in DOMAIN tasks : tasks[j].pc = "done"


(***************************************************************************)
(* Properties of the cache calls (SpecStore).                              *)
(***************************************************************************)
StoredKeys(table) == {r.key : r \in table}

\* C11: whatever inserts were made, the table holds at most one row per
\* (Symbol, DataType, BarSize, TickerTime); an insert leaves every row that
\* was stored as it was, also a row whose key comes again in the inserted
\* block, and inserting the same block once more changes nothing.
C11_InsertIdempotentByKey ==
    /\ \A r1, r2 \in db : r1.key = r2.key => r1 = r2
    /\ call.kind = "insert" =>
           /\ call.before \subseteq db
           /\ StoredKeys(db) = StoredKeys(call.before) \cup {call.blk[i].key : i \in DOMAIN call.blk}
           /\ insert_hist_data(db, call.blk) = db

\* An insert of a block with a row whose key was stored with other values.
C11_Witness ==
    /\ call.kind = "insert"
    /\ \E i \in DOMAIN call.blk : \E r \in call.before :
           /\ r.key = call.blk[i].key
           /\ r.cells.opening # call.blk[i].cells.opening
           /\ r \in db

\* A row of a block is inside an insert limit (start, end).
InLimit(r, limit) == limit[1] <= r.key[4] /\ r.key[4] <= limit[2]

\* A stored row holds a row of a block: the same key and price; the same
\* volume, or 0 where the block has a negative one.
Holds(stored, r) ==
    /\ stored.key = r.key
    /\ stored.cells.opening = r.cells.opening
    /\ \/ stored.cells.volume = r.cells.volume
       \/ (\E v \in r.cells.volume : v < 0) /\ stored.cells.volume = {0}

C13_RoundTrip ==
    call.kind = "download_insert" /\ call.limit # <<>> =>
        query_hist_data(db, request.Symbol, request.DataType, request.BarSize,
                        <<call.limit[1]>>, <<call.limit[2]>>)
            = loc(call.blk, call.limit[1], call.limit[2])

\* The stored rows a query (symbol, datatype, barsize, start, end) asks for.
Asked(table, q) ==
    {r \in table : /\ r.key[1] = q[1] /\ r.key[2] = q[2] /\ r.key[3] = q[3]
                   /\ q[4] = <<>> \/ q[4][1] <= r.key[4]
                   /\ q[5] = <<>> \/ r.key[4] <= q[5][1]}

\* C14: query_hist_data returns the stored rows with the Symbol, DataType
\* and BarSize of the query and start <= TickerTime <= end, both bounds
\* included and a bound that is None not limiting, each of them once and no
\* other row; the table is not changed.
C14_QueryInclusiveRange ==
    call.kind = "query" =>
        /\ RowSet(call.ret) = Asked(call.before, call.q)
        /\ Len(call.ret) = Cardinality(Asked(call.before, call.q))
        /\ db = call.before

\* A query with a start and no end that returns a row stored at the start,
\* while an earlier row of the key and a row of another symbol are stored.
C14_Witness ==
    /\ call.kind = "query"
    /\ call.q[4] # <<>> /\ call.q[5] = <<>>
    /\ \E i \in DOMAIN call.ret : call.ret[i].key[4] = call.q[4][1]
    /\ \E r \in db : r.key[1] = call.q[1] /\ r.key[4] < call.q[4][1]
    /\ \E r \in db : r.key[1] # call.q[1]

(***************************************************************************)
(* Properties of the IB connections (SpecPool).                            *)
(***************************************************************************)
Connected == {s \in Sessions : ib[s].connected}

\* C15: at any time at most as many IB objects are connected as the
\* semaphore has permits (30 in the source, SemCapacity here), the value of
\* the semaphore stays within 0..SemCapacity, and no release is made at
\* full value.
C15_AdmissionBound ==
    /\ Cardinality(Connected) <= SemCapacity
    /\ sem \in 0..SemCapacity
    /\ "over_release" \notin fault

\* All permits are taken by connected objects and one more object waits in
\* acquire.
C15_Witness ==
    /\ Cardinality(Connected) = SemCapacity
    /\ sem = 0
    /\ \E s \in Sessions : ib[s].pc = "acquire"

Quiet == \A s \in Sessions : ib[s].pc = "idle"

\* C16: when no connect has failed, no connection was lost and no call is
\* under way, the value of the semaphore is its initial value minus the
\* number of connected objects, the ids out of the set are those of the
\* connected objects, one each, and an object that is not connected has no
\* clientid; with no object connected the value is the initial one.
C16_SemaphoreAccounting ==
    fault = {} /\ Quiet =>
        /\ sem = SemCapacity - Cardinality(Connected)
        /\ \A s \in Sessions : ib[s].connected <=> ib[s].clientid # <<>>
        /\ clientid_baskets = ClientIds \ {ib[s].clientid[1] : s \in Connected}
        /\ \A s, t \in Connected : s # t => ib[s].clientid # ib[t].clientid
        /\ Connected = {} => sem = SemCapacity

\* After connects and a disconnect without a failure: as many objects are
\* connected as there are permits and one is not.
C16_Witness ==
    /\ fault = {} /\ Quiet
    /\ recycled
    /\ Cardinality(Connected) = SemCapacity
    /\ \E s \in Sessions \ Connected : ib[s].clientid = <<>>

(***************************************************************************)
(* Properties of the calls get_hist_data makes (SpecSync).                 *)
(***************************************************************************)
CallEnded == pc \in {"returned", "raised"}

\* C17: with no database given, or for bars of seconds, get_hist_data asks
\* the broker for the bars of the request once and has nothing to do with
\* the database: no engine is asked for, no query and no insert is made, no
\* sub-request exists, and the table is the one of the start.
C17_DirectPathLeavesCache ==
    ~mysql \/ BarUnit(request.BarSize) = "s" =>
        /\ io.opened = 0 /\ engine = "none"
        /\ io.queried = 0
        /\ io.fetched = <<>> /\ io.inserted = <<>> /\ tasks = <<>>
        /\ db = io.db0
        /\ io.direct <= 1
        /\ CallEnded => io.direct = 1

\* A request for bars of seconds with a database that holds a bar: the call
\* has returned the block of one fetch.
C17_Witness ==
    /\ mysql /\ BarUnit(request.BarSize) = "s"
    /\ pc = "returned"
    /\ io.direct = 1
    /\ db # {} /\ blk_ret # <<>>

\* C18: no bar fetch and no insert is made twice, whatever fails; when
\* get_hist_data returns through the database, it has made no fetch for the
\* whole request, and for each sub-request of the plan one fetch and one
\* insert; with a plan without sub-requests no fetch and no insert was made,
\* the table is the one of the start and the block returned holds the stored
\* rows of the request's key inside [start_dt, end_dt].
C18_OncePerSubRequest ==
    /\ io.direct <= 1
    /\ \A j \in DOMAIN io.fetched : io.fetched[j] <= 1 /\ io.inserted[j] <= io.fetched[j]
    /\ pc = "returned" /\ mysql /\ BarUnit(request.BarSize) # "s" =>
           /\ io.direct = 0
           /\ DOMAIN io.fetched = DOMAIN plan.dl_reqs
           /\ \A j \in DOMAIN plan.dl_reqs : io.fetched[j] = 1 /\ io.inserted[j] = 1
           /\ plan.dl_reqs = <<>> =>
                  LET cached == Asked(io.db0, <<request.Symbol, request.DataType, request.BarSize,
                                                <<plan.start_dt>>, <<plan.end_dt>>>>)
                  IN  /\ db = io.db0
                      /\ RowSet(blk_ret) = cached
                      /\ Len(blk_ret) = Cardinality(cached)

\* A call that returned after two sub-requests.
C18_Witness ==
    /\ pc = "returned" /\ mysql
    /\ Len(plan.dl_reqs) >= 2
    /\ \A j \in DOMAIN plan.dl_reqs : io.fetched[j] = 1 /\ io.inserted[j] = 1

\* C19: the planner raises NotImplementedError for bars of seconds, weeks
\* and months before any query; and a call for such bars, in which neither
\* the broker nor the database fails, ends by returning the block of one
\* fetch of the whole request.
C19_UnsupportedFallsBack ==
    /\ plan.status = "NotImplementedError" => io.queried = 0
    /\ BarUnit(request.BarSize) \in {"s", "W", "M"} /\ io.failed = {} /\ CallEnded =>
           pc = "returned" /\ io.direct = 1

\* C20: a call in which the engine of the database cannot be opened, and the
\* broker does not fail, ends by returning the block of one fetch of the
\* whole request.
C20_CacheUnavailableDegrades ==
    "engine" \in io.failed /\ "broker" \notin io.failed /\ CallEnded =>
        pc = "returned" /\ io.direct = 1

(***************************************************************************)
(* Properties of the planner's steps (SpecPlan).                           *)
(***************************************************************************)
Planned == plan.status \in {"ok", "ValueError"}

MissingDates == RequiredDates \ CachedDates

\* Two dates that follow each other in the sequence of sessions.
NextSessions(a, b) == a < b /\ \A d \in (a + 1)..(b - 1) : ~IsSession(d)

\* A request for daily bars of one week that requires every session of a
\* week (5 in the source's calendar, DaysPerWeek - 1 here).
FullWeek ==
    /\ request.BarSize = "1d" /\ request.TimeDur = <<1, "W">>
    /\ Cardinality(RequiredDates) = DaysPerWeek - 1

\* C21: for daily bars of one full week, an empty cache gives exactly one
\* sub-request and it covers every required session; a cache that holds all
\* required sessions but two, the two not next to each other in the
\* sequence of sessions, gives exactly two sub-requests.
C21_WeekScenario ==
    plan.status = "ok" /\ FullWeek =>
        /\ CachedDates = {} => Len(plan.dl_reqs) = 1 /\ RequiredDates \subseteq Covered
        /\ ( /\ CachedDates \subseteq RequiredDates
             /\ Cardinality(MissingDates) = 2
             /\ \A a, b \in MissingDates : ~NextSessions(a, b) )
               => Len(plan.dl_reqs) = 2

SubDaily(req) == req.TimeDur[2] \in {"h", "m", "s"} /\ BarUnit(req.BarSize) \in {"h", "m", "s"}

\* C22: when TimeDur and BarSize are both below a day, the start and the end
\* that hist_data_req_start_end computes are on the same calendar date,
\* whatever the day and the time of day of TimeEnd.
C22_IntradayRange ==
    Planned /\ SubDaily(request) => date(plan.start_dt) = date(plan.end_dt)

\* The periods the sub-requests of the plan ask for.
PlannedYears == {year(plan.dl_reqs[j].TimeEnd) : j \in DOMAIN plan.dl_reqs}

\* The day of a request that ends at the clock's time: it is still open when
\* it is a session and the request does not end at its last instant.
Today == date(request.TimeEnd)

StillOpen ==
    /\ year(request.TimeEnd) = now
    /\ Today \in RequiredDates
    /\ time(request.TimeEnd) # TicksPerDay - 1

\* C24: on a cache filled by earlier calls, the plan asks again for the
\* current period and for no cached closed one: for BarSize >= 1 day the
\* current year if it is required, and no other year that has rows in the
\* window; for BarSize < 1 day the current day if it is still open, also
\* when part of it is cached, and no other day that has rows in the window.
C24_RefreshCurrentPeriod ==
    plan.status = "ok" =>
        IF IsCoarse
        THEN /\ now \in RequiredYears => now \in PlannedYears
             /\ \A y \in WindowYears \cap RequiredYears : y # now => y \notin PlannedYears
        ELSE /\ StillOpen => Today \in Covered
             /\ \A d \in WindowDates : d # Today => d \notin Covered

\* C26: for BarSize >= 1 day, whenever the current year is one of the
\* required years the plan holds a sub-request of one year that ends in the
\* current year, whether or not the cache has rows of that year.
C26_CurrentYearRefreshed ==
    plan.status = "ok" /\ IsCoarse /\ now \in RequiredYears =>
        \E j \in DOMAIN plan.dl_reqs :
            /\ plan.dl_reqs[j].TimeDur = <<1, "Y">>
            /\ plan.dl_reqs[j].TimeEnd = tzmax(Dec31(now))

C26_Witness ==
    /\ plan.status = "ok" /\ IsCoarse /\ now \in RequiredYears
    /\ now \in WindowYears
    /\ now \in PlannedYears

\* The gap years of BarSize >= 1 day: the required years that have no cached
\* row in the window or are the current year.
GapYears == {y \in RequiredYears : y \notin WindowYears \/ y = now}

\* The calendar-year span of year y.
YearSpan(y) == <<Jan1(y), tzmax(Dec31(y))>>

Overlap(l1, l2) == l1[1] <= l2[2] /\ l2[1] <= l1[2]

\* C27: for BarSize >= 1 day every gap year has exactly one sub-request,
\* every sub-request has Duration one year and ends at the last instant of
\* its year, its insert limit at the same position is that calendar year's
\* span, and the limits of different positions do not overlap.
C27_YearRequestsAndLimits ==
    plan.status = "ok" /\ IsCoarse =>
        /\ Len(plan.insert_limit) = Len(plan.dl_reqs)
        /\ \A y \in GapYears :
              Cardinality({j \in DOMAIN plan.dl_reqs :
                              year(plan.dl_reqs[j].TimeEnd) = y}) = 1
        /\ \A j \in DOMAIN plan.dl_reqs :
              /\ plan.dl_reqs[j].TimeDur = <<1, "Y">>
              /\ plan.dl_reqs[j].TimeEnd = tzmax(Dec31(year(plan.dl_reqs[j].TimeEnd)))
              /\ plan.insert_limit[j] = YearSpan(year(plan.dl_reqs[j].TimeEnd))
        /\ \A j, k \in DOMAIN plan.insert_limit :
              j # k => ~Overlap(plan.insert_limit[j], plan.insert_limit[k])

\* The gap dates of BarSize < 1 day: the required sessions with no cached row.
GapDates == RequiredDates \ WindowDates

Least(S) == CHOOSE d \in S : \A e \in S : d <= e

Greatest(S) == CHOOSE d \in S : \A e \in S : d >= e

\* The sub-request at position j is one run: "<n>d" for the n consecutive
\* sessions up to its last, all of them gap dates, ending at the day end of
\* the last, limited to [day start of the first, day end of the last], and
\* like the parent request in every other field.
IsRun(j) ==
    LET sub == plan.dl_reqs[j]
        run == SessionsOf(sub)
    IN  /\ sub.TimeDur[2] = "d" /\ sub.TimeDur[1] = Cardinality(run)
        /\ run # {} /\ run \subseteq GapDates
        /\ sub.TimeEnd = tzmax(Greatest(run) * TicksPerDay)
        /\ plan.insert_limit[j] = <<tzmin(Least(run) * TicksPerDay), sub.TimeEnd>>
        /\ sub = [request EXCEPT !.TimeDur = sub.TimeDur, !.TimeEnd = sub.TimeEnd]

\* C28: for BarSize < 1 day the sub-requests of a plan are the maximal runs
\* of gap dates that are contiguous in the session sequence: every
\* sub-request is one run with its Duration, TimeEnd and insert limit, the
\* runs are disjoint and together are the gap dates, and no session of one
\* run is the next session after a session of another.
C28_RunsPartitionGaps ==
    plan.status = "ok" /\ ~IsCoarse =>
        /\ Len(plan.insert_limit) = Len(plan.dl_reqs)
        /\ \A j \in DOMAIN plan.dl_reqs : IsRun(j)
        /\ Covered = GapDates
        /\ \A j, k \in DOMAIN plan.dl_reqs : j # k =>
              /\ SessionsOf(plan.dl_reqs[j]) \cap SessionsOf(plan.dl_reqs[k]) = {}
              /\ \A a \in SessionsOf(plan.dl_reqs[j]), b \in SessionsOf(plan.dl_reqs[k]) :
                    ~NextSessions(a, b)

\* Two runs, one of which goes over a day that is no session.
C28_Witness ==
    /\ plan.status = "ok" /\ ~IsCoarse
    /\ Len(plan.dl_reqs) >= 2
    /\ \E j \in DOMAIN plan.dl_reqs :
          \E a, b \in SessionsOf(plan.dl_reqs[j]) : b > a + 1 /\ NextSessions(a, b)

\* C29: when the Duration unit is d and BarSize is one day or coarser, the
\* start of the required range is 00:00:00 of the first required session,
\* whatever the time of day of TimeEnd.
C29_DailyStartOfDay ==
    Planned /\ IsCoarse /\ request.TimeDur[2] = "d" =>
        plan.start_dt = tzmin(iloc_first(plan.trd_days))

\* The k last sessions that are not after day d.
LastSessions(d, k) ==
    LET upto == {e \in 0..d : IsSession(e)}
    IN  {e \in upto : Cardinality({f \in upto : f >= e}) <= k}

\* The extra session of a request without a start: TimeEnd is not at
\* midnight, or the part of the duration below one day reaches back before
\* the start of TimeEnd's day.
ExtraSession ==
    \/ time(request.TimeEnd) # 0
    \/ timedur_to_timedelta(request.TimeDur).seconds > time(request.TimeEnd)

\* C30: without a start (Duration in d, h, m or s) the required sessions are,
\* in ascending order, the k consecutive sessions that end at the last
\* session not after TimeEnd's date, k being the whole days of the duration
\* plus one if there is an extra session, and one only when both of its
\* conditions hold.
C30_SessionCount ==
    Planned /\ request.TimeDur[2] \in {"d", "h"} =>
        /\ \A i, j \in DOMAIN plan.trd_days : i < j => plan.trd_days[i] < plan.trd_days[j]
        /\ RequiredDates =
              LastSessions(date(request.TimeEnd),
                           timedur_to_timedelta(request.TimeDur).days
                             + IF ExtraSession THEN 1 ELSE 0)

\* C23: when get_hist_data is called a second time with the same request,
\* on the table as the first call left it and with a broker that sends the
\* same bars for the same request, the block it returns equals the block
\* the first call returned: the same rows with the same values in the same
\* order.
C23_SyncIdempotent ==
    pc = "returned" /\ first_ret # <<>> => blk_ret = first_ret[1]

(***************************************************************************)
(* Properties of the time zones (SpecZone).                                *)
(***************************************************************************)
\* Every row of a returned block with rows carries the zone of the exchange.
InExchangeZone(blk) ==
    blk.status = "ok" => \A r \in blk.index : r.tz = <<contract.zone>>

\* The instants of a block's rows with their values.
Content(index) == {<<Instant(r), r.closing>> : r \in index}

\* C25: every block with rows that req_hist_data_async or get_hist_data
\* returns has all its TickerTimes in the time zone of the exchange of the
\* request's contract, for bars of a day or more and for bars below a day;
\* showing a returned block in another zone gives rows that all carry that
\* zone, at the same instants with the same values.
C25_ExchangeZone ==
    /\ InExchangeZone(blk_list)
    /\ InExchangeZone(blk_sync)
    /\ moved.status # "none" =>
          /\ moved.status = "ok"
          /\ \A r \in moved.after : r.tz = moved.tz
          /\ Cardinality(moved.after) = Cardinality(moved.before)
          /\ Content(moved.after) = Content(moved.before)

(***************************************************************************)
(* Further properties of the trading calendar and the planner (SpecPlan).  *)
(***************************************************************************)
\* The sessions of the calendar, each at its 00:00:00.
CalendarSessions == {NYSE_CAL[i] : i \in DOMAIN NYSE_CAL}

\* C31: when a start is given (Duration in W, M or Y) the required sessions
\* are, in ascending order, exactly the sessions t of the calendar with
\* start <= t <= end, both ends included.
C31_SessionsBetween ==
    Planned /\ request.TimeDur[2] \in {"W", "M", "Y"} =>
        /\ \A i, j \in DOMAIN plan.trd_days : i < j => plan.trd_days[i] < plan.trd_days[j]
        /\ {plan.trd_days[i] : i \in DOMAIN plan.trd_days}
              = {t \in CalendarSessions : plan.start_dt <= t /\ t <= plan.end_dt}

\* C34: planning a request with BarSize < 1 day never fails: every gap date
\* the planner computes is one of the required sessions, whatever rows of
\* earlier calls the cache holds inside [requiredStart, requiredEnd].
C34_PlannerNeverFails ==
    plan.status # "none" /\ ~IsCoarse /\ BarUnit(request.BarSize) # "s" =>
        /\ plan.status = "ok"
        /\ sym_diff(RequiredDates, WindowDates) \subseteq RequiredDates

(***************************************************************************)
(* Further properties of get_hist_data (SpecSync).                         *)
(***************************************************************************)
\* The second call has planned.
PlannedAgain == first_ret # <<>> /\ plan.status # "none"

\* The required sessions of which the first call fetched and persisted a
\* row: the broker sent the row and the table held its key when the second
\* call began.
Persisted ==
    {d \in RequiredDates :
        \E p \in served : \E i \in DOMAIN p[2] :
            /\ date(p[2][i].key[4]) = d
            /\ \E r \in io.db0 : r.key = p[2][i].key}

\* The range of the request touches the year of the clock.
TouchesCurrentYear == now \in year(Required.start_dt)..year(Required.end_dt)

\* C35: once get_hist_data has returned, planning the same request again
\* (for BarSize >= 1 day a range outside the current year) repeats no
\* remote call: no sub-request covers a required session of which the
\* first call persisted a row.
C35_NoRepeatedFetch ==
    PlannedAgain /\ (IsCoarse => ~TouchesCurrentYear) =>
        /\ plan.status = "ok"
        /\ Persisted \cap Covered = {}

\* C36: a call of get_hist_data that opened the engine has closed it when
\* the call has ended, whether it returned a block or raised.
C36_EngineClosed ==
    pc \in {"returned", "raised"} => engine # "open"

\* A first call with a database whose table is empty has ended, and no call
\* of the broker, of the engine or of the table has failed in it.
EndedOnEmptyCache ==
    /\ mysql
    /\ first_ret = <<>>
    /\ io.db0 = {}
    /\ io.failed = {}
    /\ pc \in {"returned", "raised"}

\* The rows the broker has sent.
Sent == UNION {{p[2][i] : i \in DOMAIN p[2]} : p \in served}

\* C37: the cache is transparent.  Without a database get_hist_data returns
\* the block of the broker whenever the broker answers; with a database
\* whose table is empty it ends the same way: it returns a block, and the
\* rows of the block are rows the broker sent, with their values.
C37_CacheTransparent ==
    EndedOnEmptyCache =>
        /\ pc = "returned"
        /\ \A i \in DOMAIN blk_ret : blk_ret[i] \in Sent

(***************************************************************************)
(* Further properties of the IB connections (SpecPool, SpecTwice).         *)
(***************************************************************************)
\* The objects that have a clientid, and the ids they have.
WithId == {s \in Sessions : ib[s].clientid # <<>>}

HeldIds == {ib[s].clientid[1] : s \in WithId}

\* C38: the client ids of the objects are pairwise distinct, none of them
\* is in IB.clientid_baskets, together with IB.clientid_baskets they are
\* all the ids, and a connect that has acquired a permit finds an id in
\* the set.
C38_IdPartition ==
    /\ \A s, t \in WithId : s # t => ib[s].clientid # ib[t].clientid
    /\ HeldIds \cap clientid_baskets = {}
    /\ HeldIds \cup clientid_baskets = ClientIds
    /\ "pop_empty" \notin fault

\* No connect_async is under way on the object.
AtRest(s) == ib[s].pc = "idle" /\ again[s] = "idle"

\* C39: an object that is not connected and on which no connect is under
\* way has no client id, and when no connect is under way on any object the
\* permits out of the semaphore are those of the connected objects: the
\* permit and the id of a connect that raised, and of a connection that was
\* lost and then disconnected, have been given back.
C39_GivenBack ==
    /\ \A s \in Sessions : AtRest(s) /\ ~ib[s].connected => ib[s].clientid = <<>>
    /\ (\A s \in Sessions : AtRest(s)) =>
           /\ sem = SemCapacity - Cardinality(Connected)
           /\ clientid_baskets = ClientIds \ {ib[s].clientid[1] : s \in Connected}

\* The objects that are connected or in connectAsync: each needs a permit
\* and an id.
InUse ==
    {s \in Sessions : ib[s].connected \/ ib[s].pc = "connectAsync" \/ again[s] = "connectAsync"}

\* No connect has raised, no connection was lost, no id was missing.
NoFailure == fault \cap {"connect_failed", "connection_lost", "pop_empty"} = {}

\* C40: no object has more than one permit or more than one id, also when
\* two calls of connect_async overlap on it: the permits and the ids that
\* are out are at most one for each object that is connected or
\* connecting, and once every object is disconnected again the semaphore
\* and the set of ids are as they were at the beginning.
C40_OnePermitOneId ==
    NoFailure =>
        /\ SemCapacity - sem <= Cardinality(InUse)
        /\ Cardinality(ClientIds \ clientid_baskets) <= Cardinality(InUse)
        /\ (Connected = {} /\ \A s \in Sessions : AtRest(s)) =>
               sem = SemCapacity /\ clientid_baskets = ClientIds

(***************************************************************************)
(* Properties of the texts of a request (SpecText).                        *)
(***************************************************************************)
\* A verbose text: its unit is a keyword, not a single letter.
Verbose(t) == Len(SelectSeq(t, IsLetter)) > 1

Lowered(t) == [i \in DOMAIN t |-> lower(t[i])]

\* C32: a verbose bar size or duration whose unit keyword is written in
\* any letter case is normalised like the same text in lower case, to a
\* magnitude and a unit that is one of s, m, h, d, W, M, Y.
C32_CaseInsensitive ==
    \A f \in {"BarSize", "TimeDur"} :
        parsed[f] # <<>> /\ Verbose(text[f]) =>
            /\ parsed[f][1] = timedur_standardize(Lowered(text[f]))
            /\ parsed[f][1].status = "ok" =>
                  parsed[f][1].value[Len(parsed[f][1].value)]
                      \in {"s", "m", "h", "d", "W", "M", "Y"}

\* C33: an invalid bar size or duration text is refused when the request
\* is constructed: no conversion of a text raises after get_hist_data has
\* started, neither on the direct path nor in a sub-request under gather.
C33_ErrorsAtConstruction ==
    phase \notin {"raised_direct", "raised_in_task"}

=============================================================================
